---- MODULE Spec2Model ----
(***************************************************************************)
(* The hosted invoice service (services/invoiceService.ts) over the        *)
(* relational schema of supabase/migrations: number resolution, input and  *)
(* relationship validation, the two-step invoice/items write with its      *)
(* compensating delete, and the single-call operations getNextInvoice-     *)
(* Number, updateInvoice and deleteInvoice.                                *)
(***************************************************************************)
EXTENDS Integers, Sequences, FiniteSets, TLC

VARIABLES
    store,        \* useStore: the snapshot, loading flags and error messages
    storeCall,    \* the store operation in progress, or the last one
    parked,       \* the store operations waiting at their await meanwhile
    localStorage, \* the offline variant: the four keys of window.localStorage
    offlineStore, \* the offline variant: the state of its store
    transfer,     \* history: the last exportData and the last importData
    profiles,     \* table freelancers: the columns [user_id, name, email] by id
    session,      \* supabase.auth: the signed-in user, if any
    freelancers,  \* table freelancers: the set of persisted freelancer ids
    clients,      \* table clients: rows [id, freelancer_id, user_id, email,
                  \* company_name]
    invoices,     \* table invoices: rows (see InvoiceRow)
    items,        \* table invoice_items: rows (see ItemRows)
    nextId,       \* invoice ids generated so far (gen_random_uuid is fresh)
    call,         \* per createInvoice call slot: its position and locals
    ret,          \* the result of a single-await service call, until taken
    nOps,         \* service calls issued so far
    lastNext,     \* history: the last getNextInvoiceNumber result
    maxAssigned,  \* history: the greatest number assigned per freelancer
    resolved,     \* history: the greatest number resolved, see ResolvedAfter
    everResolved  \* history: the greatest number resolved by a returned call

vars == <<store, storeCall, parked, localStorage, offlineStore, transfer, profiles, session, freelancers, clients, invoices, items, nextId, call, ret, nOps,
          lastNext, maxAssigned, resolved,
                   everResolved>>

db == <<freelancers, clients, invoices, items>>

\* The offline variant
local == <<localStorage, offlineStore, transfer>>

\* What invoiceService and the calls of one client row leave alone
app == <<store, storeCall, parked, local, profiles>>

----------------------------------------------------------------------------
(* Bounds of the model *)

MaxOps == 3
MaxInputCalls == 1
MaxFormCalls == 2
MaxOffline == 4

----------------------------------------------------------------------------
(* Values *)

Null == <<>>
Some(v) == <<v>>

Digits == <<"0", "1", "2", "3", "4", "5", "6", "7", "8", "9">>

RECURSIVE NatToString(_)
NatToString(n) ==
    IF n < 10 THEN Digits[n + 1]
    ELSE NatToString(n \div 10) \o Digits[(n % 10) + 1]

RECURSIVE padStart(_, _, _)
padStart(s, targetLength, fill) ==
    IF Len(s) >= targetLength THEN s
    ELSE padStart(fill \o s, targetLength, fill)

\* gen_random_uuid() for the k-th generated invoice id
InvoiceUuid(k) == "i" \o NatToString(k)

FreelancerUuids == {"f1", "f2", "f8", "f9"}
ClientUuids == {"c1", "c2", "c9"}
InvoiceUuids == {InvoiceUuid(k) : k \in 0..MaxOps}

\* uuidRegex.test(s): the ids of the model that have the UUID shape
uuidRegexTest(s) == s \in FreelancerUuids \cup ClientUuids \cup InvoiceUuids

StatusValues == {"draft", "sent", "paid", "overdue"}

\* `INV-${nextNumber.toString().padStart(3, '0')}`
FormatInvoiceNumber(nextNumber) ==
    "INV-" \o padStart(NatToString(nextNumber), 3, "0")

\* parseInt(data.split('-')[1]) of a generated number
NumericPart(s) ==
    CHOOSE n \in 0..(MaxOps + 2) : FormatInvoiceNumber(n) = s

----------------------------------------------------------------------------
(* Strings whose characters the code inspects are sequences of characters *)

IsSpace(ch) == ch = " "

RECURSIVE trimStart(_)
trimStart(s) ==
    IF s # <<>> /\ IsSpace(Head(s)) THEN trimStart(Tail(s)) ELSE s

RECURSIVE trimEnd(_)
trimEnd(s) ==
    IF s # <<>> /\ IsSpace(s[Len(s)]) THEN trimEnd(SubSeq(s, 1, Len(s) - 1))
    ELSE s

trim(s) == trimEnd(trimStart(s))

\* Dates: the strings matching /^\d{4}-\d{2}-\d{2}$/ and their fields
DateFields ==
    [ d \in {"2024-01-15", "2024-02-14", "2024-02-30"} |->
        CASE d = "2024-01-15" -> <<2024, 1, 15>>
          [] d = "2024-02-14" -> <<2024, 2, 14>>
          [] d = "2024-02-30" -> <<2024, 2, 30>> ]

IsLeapYear(y) == (y % 4 = 0 /\ y % 100 # 0) \/ y % 400 = 0

DaysInMonth(y, m) ==
    IF m = 2 THEN (IF IsLeapYear(y) THEN 29 ELSE 28)
    ELSE IF m \in {4, 6, 9, 11} THEN 30 ELSE 31

\* dateRegex.test, then new Date(s).toISOString().slice(0, 10) === s
isValidDateString(dateString) ==
    /\ dateString \in DOMAIN DateFields
    /\ LET f == DateFields[dateString]
       IN  /\ f[2] \in 1..12
           /\ f[3] \in 1..DaysInMonth(f[1], f[2])

----------------------------------------------------------------------------
(* Inputs: invoice drafts (CreateInvoiceInput) and their items *)

\* An absent optional field (invoice_number, status) is the empty string:
\* the code tests both with !x / x && ..., which "" and undefined fail alike.
Absent == ""

WebDevelopment == <<"W", "e", "b">>
Blank == <<" ", " ">>

GoodItem ==
    [description |-> WebDevelopment, quantity |-> 1, rate |-> 250000,
     amount |-> 250000]
PaddedItem ==
    [description |-> <<" ", "Q", "A", " ">>, quantity |-> 5, rate |-> 10000,
     amount |-> 50000]
BlankItem ==
    [description |-> Blank, quantity |-> 1, rate |-> 250000,
     amount |-> 250000]
ZeroQuantityItem ==
    [description |-> WebDevelopment, quantity |-> 0, rate |-> 250000,
     amount |-> 0]

GoodTotals ==
    [subtotal |-> 250000, tax_rate |-> 20, tax_amount |-> 50000,
     total |-> 300000]
NegativeTotals ==
    [subtotal |-> -10000, tax_rate |-> 20, tax_amount |-> 50000,
     total |-> 300000]

Draft(f, c, num, issued, due, totals, status) ==
    [freelancer_id |-> f, client_id |-> c, invoice_number |-> num,
     date_issued |-> issued, due_date |-> due,
     subtotal |-> totals.subtotal, tax_rate |-> totals.tax_rate,
     tax_amount |-> totals.tax_amount, total |-> totals.total,
     status |-> status]

\* Every combination of field values, valid and invalid
AllInputs ==
    { [invoice |-> Draft(f, c, num, issued, due, totals, status),
       items |-> its] :
        f \in {"f1", "f2", "f9", "invalid-uuid"},
        c \in {"c1", "c2", "c9", "invalid-uuid"},
        num \in {Absent, "INV-002"},
        issued \in {"2024-01-15", "2024-02-30"},
        due \in {"2024-02-14", "02/14/2024"},
        totals \in {GoodTotals, NegativeTotals},
        status \in {Absent, "sent", "archived"},
        its \in {<<>>, <<GoodItem, PaddedItem>>, <<GoodItem, ZeroQuantityItem>>,
                 <<BlankItem>>} }

\* The inputs of interleaved calls: each freelancer invoicing its own client,
\* with and without a number, with and without items
ConcurrentInputs ==
    { [invoice |-> Draft(fc[1], fc[2], num, "2024-01-15", "2024-02-14",
                         GoodTotals, Absent),
       items |-> its] :
        fc \in {<<"f1", "c1">>, <<"f2", "c2">>},
        num \in {Absent, "INV-002"},
        its \in {<<>>, <<GoodItem, PaddedItem>>} }

----------------------------------------------------------------------------
(* validateInvoiceInput *)

ItemError(i, item) ==
    LET prefix == "Item " \o NatToString(i) \o ": "
    IN  IF trim(item.description) = <<>>
          THEN Some(prefix \o "Description is required")
        ELSE IF item.quantity <= 0
          THEN Some(prefix \o "Quantity must be greater than 0")
        ELSE IF item.rate < 0
          THEN Some(prefix \o "Rate cannot be negative")
        ELSE IF item.amount < 0
          THEN Some(prefix \o "Amount cannot be negative")
        ELSE Null

RECURSIVE ItemsError(_, _)
ItemsError(its, i) ==
    IF i > Len(its) THEN Null
    ELSE IF ItemError(i, its[i]) # Null THEN ItemError(i, its[i])
    ELSE ItemsError(its, i + 1)

\* A validation that lets an empty items array through
NoItemsRequired(its) == Null

\* The check of the items array (lines 568-571)
ItemsRequiredError(its) ==
    IF Len(its) = 0 THEN Some("At least one invoice item is required")
    ELSE Null

validateInvoiceInput(invoice, its) ==
    IF invoice.freelancer_id = "" \/ invoice.client_id = ""
       \/ invoice.invoice_number = ""
      THEN Some("Missing required fields: freelancer_id, client_id, or invoice_number")
    ELSE IF ~uuidRegexTest(invoice.freelancer_id)
      THEN Some("Invalid freelancer_id format")
    ELSE IF ~uuidRegexTest(invoice.client_id)
      THEN Some("Invalid client_id format")
    ELSE IF ~isValidDateString(invoice.date_issued)
      THEN Some("Invalid date_issued format. Use YYYY-MM-DD")
    ELSE IF ~isValidDateString(invoice.due_date)
      THEN Some("Invalid due_date format. Use YYYY-MM-DD")
    ELSE IF invoice.subtotal < 0 \/ invoice.tax_rate < 0
            \/ invoice.tax_amount < 0 \/ invoice.total < 0
      THEN Some("Numeric fields cannot be negative")
    ELSE IF invoice.status # "" /\ invoice.status \notin StatusValues
      THEN Some("Invalid status. Must be one of: draft, sent, paid, overdue")
    ELSE IF ItemsRequiredError(its) # Null
      THEN ItemsRequiredError(its)
    ELSE ItemsError(its, 1)

----------------------------------------------------------------------------
(* The storage client: every call ends in a response without an error, in  *)
(* a response with an error, or in a rejected promise.                     *)

Faults ==
    {[kind |-> "ok", message |-> ""], [kind |-> "throw", message |-> ""],
     [kind |-> "error", message |-> ""],
     [kind |-> "error", message |-> "storage failure"]}

\* The same without the error that carries no message
NamedFaults == {x \in Faults : x.kind = "error" => x.message # ""}

\* error.message alone
MessageOnly(message, fallback) == message

\* error.message || fallback
MessageOr(message, fallback) == IF message = "" THEN fallback ELSE message

Response(thrown, code, message, data) ==
    [thrown |-> thrown, error |-> code, message |-> message, data |-> data]

\* The response of a call the client itself failed (no statement ran)
Failed(fault) ==
    Response(fault.kind = "throw",
             IF fault.kind = "error" THEN "ERR" ELSE "", fault.message, Null)

\* A count that sees no invoice
CountNothing(invs, f) == 0

\* select('*', {count: 'exact', head: true}).eq('freelancer_id', f)
CountInvoices(invs, f) == Cardinality({i \in invs : i.freelancer_id = f})

\* select ... .eq('id', id).single(): no row is error PGRST116
SelectSingle(rows, fault) ==
    IF fault.kind # "ok" THEN Failed(fault)
    ELSE IF rows = {} THEN Response(FALSE, "PGRST116", "no rows", Null)
    ELSE Response(FALSE, "", "", Some(CHOOSE r \in rows : TRUE))

\* A table without the unique index
NoUniqueIndex(invs, id, num) == TRUE

\* invoice_number text UNIQUE NOT NULL
UniqueInvoiceNumber(invs, id, num) ==
    \A i \in invs : i.id # id => i.invoice_number # num

\* A table without CHECK (status IN ('draft', 'sent', 'paid', 'overdue'))
NoStatusCheck(invs, frs, cls, row) ==
    IF ~UniqueInvoiceNumber(invs, row.id, row.invoice_number) THEN "23505"
    ELSE IF row.freelancer_id \notin frs
            \/ row.client_id \notin {c.id : c \in cls} THEN "23503"
    ELSE ""

\* The constraints of CREATE TABLE invoices on a row to be written
InvoiceConstraintError(invs, frs, cls, row) ==
    IF row.status \notin StatusValues THEN "23514"
    ELSE IF ~UniqueInvoiceNumber(invs, row.id, row.invoice_number) THEN "23505"
    ELSE IF row.freelancer_id \notin frs
            \/ row.client_id \notin {c.id : c \in cls} THEN "23503"
    ELSE ""

\* from('invoices').insert(row).select().single()
InsertInvoice(invs, frs, cls, row, fault) ==
    IF fault.kind # "ok" THEN Failed(fault)
    ELSE IF InvoiceConstraintError(invs, frs, cls, row) # ""
      THEN Response(FALSE, InvoiceConstraintError(invs, frs, cls, row),
                    "constraint violation", Null)
    ELSE Response(FALSE, "", "", Some(row))

\* The rows of a batch of items for one invoice
ItemRows(invoice_id, its) ==
    { [invoice_id |-> invoice_id, pos |-> k,
       description |-> trim(its[k].description),
       quantity |-> its[k].quantity, rate |-> its[k].rate,
       amount |-> its[k].amount] : k \in 1..Len(its) }

\* from('invoice_items').insert(rows).select(): invoice_id REFERENCES invoices
InsertItems(invs, invoice_id, its, fault) ==
    IF fault.kind # "ok" THEN Failed(fault)
    ELSE IF invoice_id \notin {i.id : i \in invs}
      THEN Response(FALSE, "23503", "foreign key violation", Null)
    ELSE Response(FALSE, "", "", Some(ItemRows(invoice_id, its)))

\* from('invoices').delete().eq('id', id); invoice_items ON DELETE CASCADE
InvoicesAfterDelete(invs, id) == {i \in invs : i.id # id}
ItemsAfterDelete(its, id) == {it \in its : it.invoice_id # id}

----------------------------------------------------------------------------
(* State *)

Slots == {"a", "b"}

DraftFreelancerIds == FreelancerUuids \cup {"invalid-uuid"}

NoResult == [data |-> Null, error |-> Null]
NoReturn ==
    [op |-> "", arg |-> "", input |-> Null, io |-> <<>>, data |-> Null,
     error |-> Null]

IdleCall ==
    [pc |-> "idle",
     invoice |-> Draft("", "", "", "", "", GoodTotals, ""),
     items |-> <<>>,
     auto |-> FALSE,            \* the number is generated, not supplied
     invoiceNumber |-> "",      \* let invoiceNumber
     createdInvoice |-> Null,   \* const createdInvoice
     itemsError |-> Null,       \* the error text of a failed item insert
     itemsFailed |-> FALSE,     \* the item insert returned an error or threw
     rollbackFailed |-> FALSE,  \* the compensating delete did so
     result |-> NoResult,
     io |-> <<>>,               \* history: the storage calls issued
     faulted |-> FALSE,         \* history: one of them failed in the client
     before |-> 0,              \* history: resolved[f] when the call began
     beforeMax |-> 0,           \* history: maxAssigned[f] when it began
     beforeAny |-> 0,           \* history: everResolved[f] when it began
     disturbed |-> FALSE]       \* history, see CallsAfterDelete

\* A client as createClient stores it
ClientRow(id, f, u) ==
    [id |-> id, freelancer_id |-> f, user_id |-> u,
     email |-> <<"a", "@", "b", ".", "c">>, company_name |-> <<"A", "c", "m", "e">>]

\* useStore.ts lines 48-66: the initial state
InitialStore ==
    [freelancer |-> Null, clients |-> <<>>, invoices |-> <<>>,
     isLoading |-> FALSE, isLoadingClients |-> FALSE,
     isLoadingInvoices |-> FALSE,
     error |-> Null, clientError |-> Null, invoiceError |-> Null,
     isInitialized |-> FALSE]

\* No store operation has been called
NoStoreCall ==
    [op |-> "", pc |-> "idle", arg |-> "", input |-> Null, thrown |-> FALSE,
     before |-> Null,           \* the snapshot when the operation was called
     synced |-> FALSE]          \* history: it matched the tables then

\* The operations that may wait at their await while the caller goes on
Waiting == {"w"}

\* storage.ts lines 3-8: the keys of the offline variant
STORAGE_KEYS == {"freelancer", "clients", "invoices", "counter"}

\* localStorage.getItem gives null for each of them
EmptyLocalStorage == [k \in STORAGE_KEYS |-> Null]

\* The offline store as it is created over an empty localStorage
InitialOfflineStore ==
    [freelancer |-> Null, clients |-> <<>>, invoices |-> <<>>,
     invoiceCounter |-> 1]

NoTransfer ==
    [exported |-> Null,         \* the document of the last exportData and the
                                \* state it was taken from
     imported |-> Null,         \* the last importData: its document, its
                                \* result and localStorage before it
     made |-> 0,                \* the ids generated so far
     steps |-> 0]               \* the operations done so far

Init ==
    /\ store = InitialStore
    /\ storeCall = NoStoreCall
    /\ parked = [w \in Waiting |-> Null]
    /\ localStorage = EmptyLocalStorage
    /\ offlineStore = InitialOfflineStore
    /\ transfer = NoTransfer
    /\ profiles = [f \in {"f1", "f2"} |->
                      [user_id |-> IF f = "f1" THEN "u1" ELSE "u2",
                       name |-> "Jane Dev", email |-> f \o "@x"]]
    /\ session = Some("u1")
    /\ freelancers = {"f1", "f2"}
    /\ clients = {ClientRow("c1", "f1", "u1"), ClientRow("c2", "f2", "u2")}
    /\ invoices = {}
    /\ items = {}
    /\ nextId = 0
    /\ call = [c \in Slots |-> IdleCall]
    /\ ret = NoReturn
    /\ nOps = 0
    /\ lastNext = Null
    /\ maxAssigned = [f \in DraftFreelancerIds |-> 0]
    /\ resolved = [f \in DraftFreelancerIds |-> 0]
    /\ everResolved = [f \in DraftFreelancerIds |-> 0]

InFlight(rec) == rec.pc \notin {"idle", "returned"}

\* A result is taken by its caller in the step after it is returned
Observing == ret # NoReturn \/ \E c \in Slots : call[c].pc = "returned"

\* Call c is at the await named pc, and resumes
At(c, pc) == ~Observing /\ call[c].pc = pc

Idle == \A c \in Slots : call[c].pc = "idle"

Ids(invs) == {i.id : i \in invs}

----------------------------------------------------------------------------
(* History bookkeeping (no effect on the program's state) *)

Max(a, b) == IF a >= b THEN a ELSE b

\* resolved[f] is the greatest number generated by a call for f that has
\* returned with success, no invoice of f having been deleted since the call
\* resolved the number (0: there is no such call).
ResolvedAfter(res, rec) ==
    IF rec.pc = "returned" /\ rec.auto /\ rec.result.error = Null
       /\ ~rec.disturbed
    THEN [res EXCEPT ![rec.invoice.freelancer_id] =
              Max(@, NumericPart(rec.invoiceNumber))]
    ELSE res

\* maxAssigned[f] is the greatest number generated by a call for f that has
\* returned with success (0: there is no such call).
AssignedAfter(assigned, rec) ==
    IF rec.pc = "returned" /\ rec.auto /\ rec.result.error = Null
    THEN [assigned EXCEPT ![rec.invoice.freelancer_id] =
              Max(@, NumericPart(rec.invoiceNumber))]
    ELSE assigned

\* everResolved[f] is the greatest number generated by a call for f that has
\* returned, with success or not (0: there is no such call).
EverResolvedAfter(ever, rec) ==
    IF rec.pc = "returned" /\ rec.auto /\ rec.invoiceNumber # ""
    THEN [ever EXCEPT ![rec.invoice.freelancer_id] =
              Max(@, NumericPart(rec.invoiceNumber))]
    ELSE ever

\* The freelancers that lose an invoice row between two states of the table.
\* A call for one of them that has yet to count starts afresh (before = 0);
\* one that has counted is disturbed.
Losers(invs, invsAfter) ==
    {i.freelancer_id : i \in {j \in invs : j.id \notin Ids(invsAfter)}}

CallsAfterDelete(calls, losers) ==
    [c \in Slots |->
        IF calls[c].auto /\ calls[c].invoice.freelancer_id \in losers
        THEN IF calls[c].pc = "count"
             THEN [calls[c] EXCEPT !.before = 0]
             ELSE IF InFlight(calls[c])
             THEN [calls[c] EXCEPT !.disturbed = TRUE]
             ELSE calls[c]
        ELSE calls[c]]

ResolvedAfterDelete(res, losers) ==
    [f \in DraftFreelancerIds |-> IF f \in losers THEN 0 ELSE res[f]]

\* The last getNextInvoiceNumber result is forgotten once an invoice is
\* created or deleted
LastNextAfter(last, invs, invsAfter) ==
    IF Ids(invs) = Ids(invsAfter) THEN last ELSE Null

----------------------------------------------------------------------------
(* getNextInvoiceNumber *)

getNextInvoiceNumber(invs, freelancer_id, fault) ==
    IF ~uuidRegexTest(freelancer_id)
      THEN [data |-> Null, error |-> Some("Invalid freelancer ID format")]
    ELSE IF fault.kind = "throw"
      THEN [data |-> Null,
            error |-> Some("An unexpected error occurred while generating invoice number")]
    ELSE IF fault.kind = "error"
      THEN [data |-> Null,
            error |-> Some(MessageOr(fault.message,
                                     "Failed to count existing invoices"))]
    ELSE [data |-> Some(FormatInvoiceNumber(CountInvoices(invs, freelancer_id) + 1)),
          error |-> Null]

\* A getNextInvoiceNumber that reserves what it returns
GetNextInvoiceNumberReserving(f, fault) ==
    /\ ~Observing
    /\ nOps < MaxOps
    /\ LET r == getNextInvoiceNumber(invoices, f, fault)
       IN  /\ ret' = [op |-> "getNextInvoiceNumber", arg |-> f, input |-> Null,
                      io |-> IF uuidRegexTest(f) THEN <<"count invoices">>
                             ELSE <<>>,
                      data |-> r.data, error |-> r.error]
           /\ lastNext' = IF r.data = Null THEN lastNext
                          ELSE Some([f |-> f, data |-> r.data[1]])
           /\ nextId' = IF r.data = Null THEN nextId ELSE nextId + 1
    /\ nOps' = nOps + 1
    /\ UNCHANGED <<app, session, freelancers, clients, invoices, items, call, maxAssigned,
                   resolved, everResolved>>

\* The service call on its own
GetNextInvoiceNumberCall(f, fault) ==
    /\ ~Observing
    /\ nOps < MaxOps
    /\ LET r == getNextInvoiceNumber(invoices, f, fault)
       IN  /\ ret' = [op |-> "getNextInvoiceNumber", arg |-> f, input |-> Null,
                      io |-> IF uuidRegexTest(f) THEN <<"count invoices">>
                             ELSE <<>>,
                      data |-> r.data, error |-> r.error]
           /\ lastNext' = IF r.data = Null THEN lastNext
                          ELSE Some([f |-> f, data |-> r.data[1]])
    /\ nOps' = nOps + 1
    /\ UNCHANGED <<app, session, freelancers, clients, invoices, items, nextId, call,
                   maxAssigned, resolved,
                   everResolved>>

----------------------------------------------------------------------------
(* createInvoice: one action per await *)

Unexpected == "An unexpected error occurred while creating the invoice"

Returned(rec, data, error) ==
    [rec EXCEPT !.pc = "returned",
                !.result = [data |-> data, error |-> Some(error)]]

Noted(rec, fault) == [rec EXCEPT !.faulted = @ \/ fault.kind # "ok"]

\* Lines 120-142: validateInvoiceInput, then the first relationship read
AfterNumber(rec, num) ==
    LET withNumber == [rec EXCEPT !.invoiceNumber = num]
        e == validateInvoiceInput([rec.invoice EXCEPT !.invoice_number = num],
                                  rec.items)
    IN  IF e # Null THEN Returned(withNumber, Null, e[1])
        ELSE [withNumber EXCEPT !.pc = "relFreelancer",
                                !.io = Append(@, "select freelancers")]

\* Lines 107-118 up to the first await
CreateInvoice(c, input) ==
    /\ At(c, "idle")
    /\ LET f == input.invoice.freelancer_id
           auto == input.invoice.invoice_number = ""
           rec == [IdleCall EXCEPT !.invoice = input.invoice,
                                   !.items = input.items,
                                   !.auto = auto,
                                   !.before = IF auto THEN resolved[f] ELSE 0,
                                   !.beforeMax = IF auto THEN maxAssigned[f] ELSE 0,
                                   !.beforeAny = IF auto THEN everResolved[f] ELSE 0]
           r == getNextInvoiceNumber(invoices, f, [kind |-> "ok", message |-> ""])
           after == IF ~auto THEN AfterNumber(rec, input.invoice.invoice_number)
                    ELSE IF ~uuidRegexTest(f) THEN Returned(rec, Null, r.error[1])
                    ELSE [rec EXCEPT !.pc = "count", !.io = <<"count invoices">>]
       IN  /\ call' = [call EXCEPT ![c] = after]
           /\ resolved' = ResolvedAfter(resolved, after)
           /\ everResolved' = EverResolvedAfter(everResolved, after)
    /\ nOps' = nOps + 1
    /\ UNCHANGED <<app, session, freelancers, clients, invoices, items, nextId, ret,
                   lastNext, maxAssigned>>

\* The count read of getNextInvoiceNumber resolves (lines 66-86, 110-118)
CountStep(c, fault) ==
    /\ At(c, "count")
    /\ LET rec == call[c]
           r == getNextInvoiceNumber(invoices, rec.invoice.freelancer_id, fault)
           after == IF r.error # Null
                      THEN Returned(rec, Null, r.error[1])
                    ELSE IF r.data = Null \/ r.data = Some("")
                      THEN Returned(rec, Null, "Failed to generate invoice number")
                    ELSE AfterNumber(rec, r.data[1])
       IN  /\ call' = [call EXCEPT ![c] = Noted(after, fault)]
           /\ resolved' = ResolvedAfter(resolved, after)
           /\ everResolved' = EverResolvedAfter(everResolved, after)
    /\ UNCHANGED <<app, session, freelancers, clients, invoices, items, nextId, ret, nOps,
                   lastNext, maxAssigned>>

\* validateInvoiceRelationships: the freelancer read resolves (lines 598-606)
RelFreelancerStep(c, fault) ==
    /\ At(c, "relFreelancer")
    /\ LET rec == call[c]
           r == SelectSingle({f \in freelancers : f = rec.invoice.freelancer_id},
                             fault)
           after == IF r.thrown
                      THEN Returned(rec, Null, "Failed to validate invoice relationships")
                    ELSE IF r.error # "" \/ r.data = Null
                      THEN Returned(rec, Null, "Freelancer not found")
                    ELSE [rec EXCEPT !.pc = "relClient",
                                     !.io = Append(@, "select clients")]
       IN  /\ call' = [call EXCEPT ![c] = Noted(after, fault)]
           /\ resolved' = ResolvedAfter(resolved, after)
           /\ everResolved' = EverResolvedAfter(everResolved, after)
    /\ UNCHANGED <<app, session, freelancers, clients, invoices, items, nextId, ret, nOps,
                   lastNext, maxAssigned>>

\* A relationship check that does not compare the owners
NoOwnershipError(client, invoice) == Null

\* Lines 619-621
OwnershipError(client, invoice) ==
    IF client.freelancer_id # invoice.freelancer_id
    THEN Some("Client does not belong to the specified freelancer")
    ELSE Null

\* validateInvoiceRelationships: the client read resolves (lines 609-623)
RelClientStep(c, fault) ==
    /\ At(c, "relClient")
    /\ LET rec == call[c]
           r == SelectSingle({cl \in clients : cl.id = rec.invoice.client_id},
                             fault)
           after == IF r.thrown
                      THEN Returned(rec, Null, "Failed to validate invoice relationships")
                    ELSE IF r.error # "" \/ r.data = Null
                      THEN Returned(rec, Null, "Client not found")
                    ELSE IF OwnershipError(r.data[1], rec.invoice) # Null
                      THEN Returned(rec, Null, OwnershipError(r.data[1], rec.invoice)[1])
                    ELSE [rec EXCEPT !.pc = "insertInvoice",
                                     !.io = Append(@, "insert invoices")]
       IN  /\ call' = [call EXCEPT ![c] = Noted(after, fault)]
           /\ resolved' = ResolvedAfter(resolved, after)
           /\ everResolved' = EverResolvedAfter(everResolved, after)
    /\ UNCHANGED <<app, session, freelancers, clients, invoices, items, nextId, ret, nOps,
                   lastNext, maxAssigned>>

\* The row of lines 147-159
InvoiceRow(id, invoice, invoiceNumber) ==
    [id |-> id,
     freelancer_id |-> invoice.freelancer_id,
     client_id |-> invoice.client_id,
     invoice_number |-> invoiceNumber,
     date_issued |-> invoice.date_issued,
     due_date |-> invoice.due_date,
     subtotal |-> invoice.subtotal,
     tax_rate |-> invoice.tax_rate,
     tax_amount |-> invoice.tax_amount,
     total |-> invoice.total,
     status |-> IF invoice.status = "" THEN "draft" ELSE invoice.status]

\* Lines 163-185
InvoiceErrorText(r) ==
    IF r.error = "23503"
      THEN "Invalid freelancer or client ID - referenced record does not exist"
    ELSE IF r.error = "23505" THEN "Invoice number already exists"
    ELSE MessageOr(r.message, "Failed to create invoice")

\* The invoice insert resolves (lines 145-194)
InsertInvoiceStep(c, fault) ==
    /\ At(c, "insertInvoice")
    /\ LET rec == call[c]
           row == InvoiceRow(InvoiceUuid(nextId + 1), rec.invoice, rec.invoiceNumber)
           r == InsertInvoice(invoices, freelancers, clients, row, fault)
           ok == ~r.thrown /\ r.error = ""
           after == IF r.thrown THEN Returned(rec, Null, Unexpected)
                    ELSE IF r.error # "" THEN Returned(rec, Null, InvoiceErrorText(r))
                    ELSE [rec EXCEPT !.pc = "insertItems",
                                     !.createdInvoice = r.data,
                                     !.io = Append(@, "insert invoice_items")]
       IN  /\ call' = [call EXCEPT ![c] = Noted(after, fault)]
           /\ resolved' = ResolvedAfter(resolved, after)
           /\ everResolved' = EverResolvedAfter(everResolved, after)
           /\ invoices' = IF ok THEN invoices \cup {r.data[1]} ELSE invoices
           /\ nextId' = IF ok THEN nextId + 1 ELSE nextId
           /\ lastNext' = IF ok THEN Null ELSE lastNext
    /\ UNCHANGED <<app, session, freelancers, clients, items, ret, nOps, maxAssigned>>

\* itemsError.message || 'Failed to create invoice items'
ItemsErrorText(message) == MessageOr(message, "Failed to create invoice items")

\* The item insert resolves (lines 196-225)
InsertItemsStep(c, fault) ==
    /\ At(c, "insertItems")
    /\ LET rec == call[c]
           created == rec.createdInvoice[1]
           r == InsertItems(invoices, created.id, rec.items, fault)
           ok == ~r.thrown /\ r.error = ""
           after == IF r.thrown
                      THEN Returned([rec EXCEPT !.itemsFailed = TRUE], Null, Unexpected)
                    ELSE IF r.error # ""
                      THEN [rec EXCEPT !.pc = "rollback",
                                       !.itemsFailed = TRUE,
                                       !.itemsError = Some(ItemsErrorText(r.message)),
                                       !.io = Append(@, "delete invoices")]
                    ELSE [rec EXCEPT !.pc = "returned",
                                     !.result = [data |-> Some([invoice |-> created,
                                                                items |-> r.data[1]]),
                                                 error |-> Null]]
       IN  /\ call' = [call EXCEPT ![c] = Noted(after, fault)]
           /\ resolved' = ResolvedAfter(resolved, after)
           /\ everResolved' = EverResolvedAfter(everResolved, after)
           /\ maxAssigned' = AssignedAfter(maxAssigned, after)
           /\ items' = IF ok THEN items \cup r.data[1] ELSE items
    /\ UNCHANGED <<app, session, freelancers, clients, invoices, nextId, ret, nOps, lastNext>>

\* The compensating delete resolves (lines 205-213); its response is not read
RollbackStep(c, fault) ==
    /\ At(c, "rollback")
    /\ LET rec == call[c]
           id == rec.createdInvoice[1].id
           invsAfter == IF fault.kind = "ok" THEN InvoicesAfterDelete(invoices, id)
                        ELSE invoices
           losers == Losers(invoices, invsAfter)
           failed == [rec EXCEPT !.rollbackFailed = fault.kind # "ok"]
           after == IF fault.kind = "throw" THEN Returned(failed, Null, Unexpected)
                    ELSE Returned(failed, Null, rec.itemsError[1])
           calls == [call EXCEPT ![c] = Noted(after, fault)]
       IN  /\ call' = CallsAfterDelete(calls, losers)
           /\ resolved' = ResolvedAfter(ResolvedAfterDelete(resolved, losers), after)
           /\ everResolved' = EverResolvedAfter(everResolved, after)
           /\ invoices' = invsAfter
           /\ items' = IF fault.kind = "ok" THEN ItemsAfterDelete(items, id) ELSE items
           /\ lastNext' = LastNextAfter(lastNext, invoices, invsAfter)
    /\ UNCHANGED <<app, session, freelancers, clients, nextId, ret, nOps, maxAssigned>>

\* The caller's continuation takes the result
Settle(c) ==
    /\ call[c].pc = "returned"
    /\ call' = [call EXCEPT ![c] = IdleCall]
    /\ UNCHANGED <<app, session, freelancers, clients, invoices, items, nextId, ret, nOps,
                   lastNext, maxAssigned, resolved,
                   everResolved>>

\* The caller takes the result of a single-await call
Take ==
    /\ ret # NoReturn
    /\ ret' = NoReturn
    /\ UNCHANGED <<app, session, freelancers, clients, invoices, items, nextId, call, nOps,
                   lastNext, maxAssigned, resolved,
                   everResolved>>

----------------------------------------------------------------------------
(* deleteInvoice and updateInvoice: one await each *)

\* The ids a caller passes: those of the persisted invoices, one of no invoice
\* and one that is not a UUID
InvoiceIdInputs == Ids(invoices) \cup {InvoiceUuid(0), "invalid-uuid"}

\* Lines 436-472
DeleteInvoiceCall(invoice_id, fault) ==
    /\ ~Observing
    /\ nOps < MaxOps
    /\ LET valid == uuidRegexTest(invoice_id)
           ok == valid /\ fault.kind = "ok"
           invsAfter == IF ok THEN InvoicesAfterDelete(invoices, invoice_id)
                        ELSE invoices
           losers == Losers(invoices, invsAfter)
           error == IF ~valid THEN Some("Invalid invoice ID format")
                    ELSE IF fault.kind = "throw"
                      THEN Some("An unexpected error occurred while deleting the invoice")
                    ELSE IF fault.kind = "error"
                      THEN Some(MessageOr(fault.message, "Failed to delete invoice"))
                    ELSE Null
       IN  /\ ret' = [op |-> "deleteInvoice", arg |-> invoice_id, input |-> Null,
                      io |-> IF valid THEN <<"delete invoices">> ELSE <<>>,
                      data |-> IF error = Null THEN Some(TRUE) ELSE Null,
                      error |-> error]
           /\ invoices' = invsAfter
           /\ items' = IF ok THEN ItemsAfterDelete(items, invoice_id) ELSE items
           /\ call' = CallsAfterDelete(call, losers)
           /\ resolved' = ResolvedAfterDelete(resolved, losers)
           /\ everResolved' = everResolved
           /\ lastNext' = LastNextAfter(lastNext, invoices, invsAfter)
    /\ nOps' = nOps + 1
    /\ UNCHANGED <<app, session, freelancers, clients, nextId, maxAssigned>>

UpdateInputs ==
    {[status |-> "paid"], [status |-> "archived"], [status |-> ""],
     [invoice_number |-> "INV-001"], [invoice_number |-> "INV-002"],
     [due_date |-> "02/14/2024"], [client_id |-> "c2"]}

NumberUpdates == {u \in UpdateInputs : "invoice_number" \in DOMAIN u}

Given(updates, field) ==
    field \in DOMAIN updates /\ updates[field] # ""

\* Lines 365-386
UpdateValidationError(updates) ==
    IF Given(updates, "status") /\ updates["status"] \notin StatusValues
      THEN Some("Invalid status. Must be one of: draft, sent, paid, overdue")
    ELSE IF Given(updates, "date_issued")
            /\ ~isValidDateString(updates["date_issued"])
      THEN Some("Invalid date_issued format. Use YYYY-MM-DD")
    ELSE IF Given(updates, "due_date") /\ ~isValidDateString(updates["due_date"])
      THEN Some("Invalid due_date format. Use YYYY-MM-DD")
    ELSE Null

\* The row with the fields of `updates` written over its own
Overwritten(row, updates, field) ==
    IF field \in DOMAIN updates THEN [row EXCEPT ![field] = updates[field]]
    ELSE row

Patched(row, updates) ==
    LET a == Overwritten(row, updates, "status")
        b == Overwritten(a, updates, "invoice_number")
        c == Overwritten(b, updates, "date_issued")
        d == Overwritten(c, updates, "due_date")
    IN  Overwritten(d, updates, "client_id")

\* from('invoices').update(updates).eq('id', id).select().single()
UpdateInvoiceRow(invs, frs, cls, invoice_id, updates, fault) ==
    LET rows == {i \in invs : i.id = invoice_id}
    IN  IF fault.kind # "ok" THEN Failed(fault)
        ELSE IF rows = {} THEN Response(FALSE, "PGRST116", "no rows", Null)
        ELSE LET new == Patched(CHOOSE r \in rows : TRUE, updates)
             IN  IF InvoiceConstraintError(invs, frs, cls, new) # ""
                 THEN Response(FALSE, InvoiceConstraintError(invs, frs, cls, new),
                               "constraint violation", Null)
                 ELSE Response(FALSE, "", "", Some(new))

\* Lines 351-429
UpdateInvoiceCall(invoice_id, updates, fault) ==
    /\ ~Observing
    /\ nOps < MaxOps
    /\ LET valid == uuidRegexTest(invoice_id)
           v == UpdateValidationError(updates)
           r == UpdateInvoiceRow(invoices, freelancers, clients, invoice_id,
                                 updates, fault)
           stored == valid /\ v = Null /\ ~r.thrown /\ r.error = ""
           error == IF ~valid THEN Some("Invalid invoice ID format")
                    ELSE IF v # Null THEN v
                    ELSE IF r.thrown
                      THEN Some("An unexpected error occurred while updating the invoice")
                    ELSE IF r.error = "PGRST116" THEN Some("Invoice not found")
                    ELSE IF r.error = "23505" THEN Some("Invoice number already exists")
                    ELSE IF r.error # ""
                      THEN Some(MessageOr(r.message, "Failed to update invoice"))
                    ELSE Null
       IN  /\ ret' = [op |-> "updateInvoice", arg |-> invoice_id,
                      input |-> Some(updates),
                      io |-> IF valid /\ v = Null THEN <<"update invoices">>
                             ELSE <<>>,
                      data |-> IF stored THEN r.data ELSE Null,
                      error |-> error]
           /\ invoices' = IF stored
                          THEN InvoicesAfterDelete(invoices, invoice_id) \cup {r.data[1]}
                          ELSE invoices
    /\ nOps' = nOps + 1
    /\ UNCHANGED <<app, session, freelancers, clients, items, nextId, call, lastNext,
                   maxAssigned, resolved,
                   everResolved>>

----------------------------------------------------------------------------
(* Specifications *)

Step(c, faults) ==
    \E fault \in faults :
        \/ CountStep(c, fault)
        \/ RelFreelancerStep(c, fault)
        \/ RelClientStep(c, fault)
        \/ InsertInvoiceStep(c, fault)
        \/ InsertItemsStep(c, fault)
        \/ RollbackStep(c, fault)

Mutation(updates, faults) ==
    \E fault \in faults, id \in InvoiceIdInputs :
        \/ DeleteInvoiceCall(id, fault)
        \/ \E u \in updates : UpdateInvoiceCall(id, u, fault)

\* A new call takes the first free slot
FirstFree(c) == \A d \in Slots : call[d].pc = "idle" => c = "a" \/ d # "a"

\* f1 with its client and f2 with its client are interchangeable: the first
\* call is issued for f1
FirstFreelancer(input) == nOps = 0 => input.invoice.freelancer_id = "f1"

\* A call issued while others are in progress
CreateInvoiceConcurrent(c, input) ==
    /\ nOps < MaxOps /\ FirstFree(c) /\ FirstFreelancer(input)
    /\ CreateInvoice(c, input)

\* Any interleaving of the awaits of concurrent createInvoice calls with
\* updateInvoice and deleteInvoice calls
Next ==
    \/ \E c \in Slots, input \in ConcurrentInputs : CreateInvoiceConcurrent(c, input)
    \/ \E c \in Slots : Step(c, NamedFaults) \/ Settle(c)
    \/ Mutation(NumberUpdates, NamedFaults)
    \/ Take

Spec == Init /\ [][Next]_vars

\* Calls issued only after the previous one returned
CreateInvoiceSeq(inputs, max) ==
    Idle /\ nOps < max /\ \E input \in inputs : CreateInvoice("a", input)
DeleteInvoiceSeq(id, fault) == Idle /\ DeleteInvoiceCall(id, fault)
UpdateInvoiceSeq(id, u, fault) == Idle /\ UpdateInvoiceCall(id, u, fault)
GetNextInvoiceNumberSeq(f, fault) == Idle /\ GetNextInvoiceNumberCall(f, fault)

\* Sequential use of the service
NextSeq ==
    \/ CreateInvoiceSeq(ConcurrentInputs, MaxOps)
    \/ Step("a", Faults) \/ Settle("a")
    \/ \E fault \in Faults, id \in InvoiceIdInputs :
           \/ DeleteInvoiceSeq(id, fault)
           \/ \E u \in UpdateInputs : UpdateInvoiceSeq(id, u, fault)
    \/ \E fault \in Faults, f \in DraftFreelancerIds :
           GetNextInvoiceNumberSeq(f, fault)
    \/ Take

SpecSeq == Init /\ [][NextSeq]_vars

\* One call at a time on every combination of input values
NextInput ==
    \/ CreateInvoiceSeq(AllInputs, MaxInputCalls)
    \/ Step("a", Faults) \/ Settle("a")

SpecInput == Init /\ [][NextInput]_vars

----------------------------------------------------------------------------
(* Properties *)

Returned_(c) == call[c].pc = "returned"

HasItems(inv) == \E it \in items : it.invoice_id = inv.id

Wrote(rec) ==
    \E k \in 1..Len(rec.io) :
        rec.io[k] \in {"insert invoices", "insert invoice_items", "delete invoices"}

NoRowWritten(rec) == rec.result.data = Null /\ rec.result.error # Null /\ ~Wrote(rec)

\* C1: whenever no createInvoice call is in progress, every persisted invoice
\* row has at least one persisted item row, whichever steps returned errors.
C1_NoInvoiceWithoutItems ==
    (\A c \in Slots : ~InFlight(call[c])) => \A inv \in invoices : HasItems(inv)

\* C2: if the item insert returns an error after the invoice insert succeeded,
\* then when the call returns the created invoice row is no longer persisted,
\* data is null and the error is the item-insertion error.
C2_RollbackOnItemFailure ==
    \A c \in Slots :
        Returned_(c) /\ call[c].itemsError # Null =>
            /\ call[c].createdInvoice[1].id \notin Ids(invoices)
            /\ call[c].result.data = Null
            /\ call[c].result.error = call[c].itemsError

\* C3: when the item insert fails and the compensating delete fails too (it
\* returns an error or throws), the error returned is still the item-insertion
\* error.
C3_RollbackFailureDoesNotMask ==
    \A c \in Slots :
        Returned_(c) /\ call[c].itemsError # Null /\ call[c].rollbackFailed =>
            call[c].result.error = call[c].itemsError

\* C4: under sequential use every number assigned to a freelancer is strictly
\* greater than every number assigned to that freelancer before, and the first
\* one of a freelancer without invoices is INV-001.
C4_MonotonicNumbering ==
    \A c \in Slots :
        Returned_(c) /\ call[c].auto /\ call[c].result.error = Null =>
            /\ NumericPart(call[c].invoiceNumber) > call[c].beforeMax
            /\ (call[c].beforeMax = 0
                /\ CountInvoices(invoices, call[c].invoice.freelancer_id) = 1
                => call[c].invoiceNumber = "INV-001")

\* C5: two consecutive getNextInvoiceNumber calls for the same freelancer, no
\* invoice created or deleted between them, return sequential numbers.
C5_ConsecutiveNextNumbers ==
    [][ (/\ lastNext # Null
         /\ nOps' = nOps + 1
         /\ ret'.op = "getNextInvoiceNumber"
         /\ ret'.data # Null
         /\ ret'.arg = lastNext[1].f)
        => NumericPart(ret'.data[1]) = NumericPart(lastNext[1].data) + 1 ]_vars

\* C6: getNextInvoiceNumber, called on its own or by createInvoice, leaves the
\* persisted freelancers, clients, invoices and items, and the id sequence, as
\* they were, whether it succeeds or fails.
C6_NextNumberHasNoSideEffect ==
    [][ (\/ ret'.op = "getNextInvoiceNumber" /\ nOps' = nOps + 1
         \/ \E c \in Slots : call[c].pc = "count" /\ call'[c].pc # "count")
        => UNCHANGED <<freelancers, clients, invoices, items, nextId>> ]_vars

C6_Witness ==
    /\ ret.op = "getNextInvoiceNumber"
    /\ ret.data = Some("INV-002")
    /\ invoices # {}

C8_UniqueInvoiceNumbers ==
    \A i, j \in invoices : i.id # j.id => i.invoice_number # j.invoice_number

C8_Witness ==
    /\ Cardinality(invoices) >= 2
    /\ \E c \in Slots :
          /\ Returned_(c)
          /\ call[c].result.error = Some("Invoice number already exists")

\* The fields validateInvoiceInput checks before the items
HeaderValid(rec) ==
    /\ rec.invoiceNumber # ""
    /\ uuidRegexTest(rec.invoice.freelancer_id)
    /\ uuidRegexTest(rec.invoice.client_id)
    /\ isValidDateString(rec.invoice.date_issued)
    /\ isValidDateString(rec.invoice.due_date)
    /\ rec.invoice.subtotal >= 0 /\ rec.invoice.tax_rate >= 0
    /\ rec.invoice.tax_amount >= 0 /\ rec.invoice.total >= 0
    /\ rec.invoice.status \in StatusValues \cup {""}

ItemsRequired == Some("At least one invoice item is required")

\* C9 (as stated): createInvoice with an empty items array always returns the
\* error 'At least one invoice item is required', whatever the other fields.
C9_EmptyItemsAlwaysItemsError ==
    \A c \in Slots :
        Returned_(c) /\ call[c].items = <<>> =>
            NoRowWritten(call[c]) /\ call[c].result.error = ItemsRequired

\* C9 (amended): createInvoice with an empty items array returns data = null
\* with an error and writes no row; the error is 'At least one invoice item is
\* required' when a number is supplied or resolved and the fields validated
\* before the items are valid.
C9_EmptyItemsRejected ==
    \A c \in Slots :
        Returned_(c) /\ call[c].items = <<>> =>
            /\ NoRowWritten(call[c])
            /\ HeaderValid(call[c]) => call[c].result.error = ItemsRequired

C9_Witness ==
    \E c \in Slots :
        /\ Returned_(c) /\ call[c].items = <<>> /\ call[c].auto
        /\ call[c].result.error = ItemsRequired

\* The call's client exists and another freelancer owns it
ForeignClient(rec) ==
    \E cl \in clients :
        cl.id = rec.invoice.client_id /\ cl.freelancer_id # rec.invoice.freelancer_id

NotOwner == Some("Client does not belong to the specified freelancer")

\* Validation passes and no storage call of the call fails
ReachesRelationships(rec) ==
    /\ rec.invoiceNumber # ""
    /\ validateInvoiceInput([rec.invoice EXCEPT !.invoice_number = rec.invoiceNumber],
                            rec.items) = Null
    /\ ~rec.faulted

C11_InvalidFreelancerIdError ==
    \A c \in Slots :
        Returned_(c) /\ ~uuidRegexTest(call[c].invoice.freelancer_id) =>
            /\ call[c].result.data = Null
            /\ call[c].result.error = Some("Invalid freelancer_id format")
            /\ call[c].io = <<>>

InvalidStatus == Some("Invalid status. Must be one of: draft, sent, paid, overdue")

\* C12: updateInvoice called with a valid invoice id and a status that is any
\* string other than draft, sent, paid or overdue returns the status
\* validation error, issues no storage call and leaves the invoices as they
\* were.
C12_UnknownStatusRejected ==
    [][ (/\ ret.op = "" /\ ret'.op = "updateInvoice"
         /\ uuidRegexTest(ret'.arg)
         /\ "status" \in DOMAIN ret'.input[1]
         /\ ret'.input[1]["status"] \notin StatusValues)
        => /\ ret'.data = Null
           /\ ret'.error = InvalidStatus
           /\ ret'.io = <<>>
           /\ invoices' = invoices ]_vars

\* C13: once a service call has returned, each persisted invoice references
\* a client owned by the invoice's own freelancer.
C13_ClientOwnedByFreelancer ==
    ret = NoReturn =>
        \A inv \in invoices :
            \E cl \in clients :
                cl.id = inv.client_id /\ cl.freelancer_id = inv.freelancer_id

----------------------------------------------------------------------------
(* The calculator, on amounts in cents *)

\* Math.round(n / d): to the nearest integer, halves upwards
MathRound(n, d) == (2 * n + d) \div (2 * d)

\* calculateTaxAmount without the rounding
TruncatedTaxAmount(subtotal, taxRate) == (subtotal * taxRate) \div 100

\* calculateItemAmount: quantity * rate, the quantity of a form item being in
\* hundredths of a unit
calculateItemAmount(quantity, rate) == MathRound(quantity * rate, 100)

\* calculateSubtotal: the sum of the items' amounts
RECURSIVE calculateSubtotal(_)
calculateSubtotal(its) ==
    IF its = <<>> THEN 0 ELSE Head(its).amount + calculateSubtotal(Tail(its))

\* calculateTaxAmount: subtotal * (taxRate / 100), taxRate in percent
calculateTaxAmount(subtotal, taxRate) == MathRound(subtotal * taxRate, 100)

calculateTotal(subtotal, taxAmount) == subtotal + taxAmount

TotalsAgree(invoice, its) ==
    /\ invoice.subtotal = calculateSubtotal(its)
    /\ invoice.tax_amount = calculateTaxAmount(invoice.subtotal, invoice.tax_rate)
    /\ invoice.total = calculateTotal(invoice.subtotal, invoice.tax_amount)

\* C14: every invoice persisted through createInvoice has subtotal = the sum
\* of its items' amounts, tax_amount = subtotal * tax_rate / 100 rounded to the
\* cent and total = subtotal + tax_amount: a draft whose totals disagree with
\* its items is not persisted.
C14_TotalsAgreeWithItems ==
    \A c \in Slots :
        Returned_(c) /\ call[c].result.error = Null =>
            TotalsAgree(call[c].result.data[1].invoice, call[c].items)

----------------------------------------------------------------------------
(* authService and clientService *)

UserIds == {"u1", "u2"}

\* signOut: supabase.auth.signOut()
SignOut ==
    /\ Idle /\ nOps < MaxOps
    /\ session # Null
    /\ session' = Null
    /\ UNCHANGED <<app, freelancers, clients, invoices, items, nextId, call, ret,
                   nOps, lastNext, maxAssigned, resolved, everResolved>>

\* signIn: supabase.auth.signInWithPassword
SignIn(u) ==
    /\ Idle /\ nOps < MaxOps
    /\ session = Null
    /\ session' = Some(u)
    /\ UNCHANGED <<app, freelancers, clients, invoices, items, nextId, call, ret,
                   nOps, lastNext, maxAssigned, resolved, everResolved>>

\* getSession: null without a session
getSession == session

UpperCase == <<"A", "C", "E", "H", "J", "M", "N", "O">>
LowerCase == <<"a", "c", "e", "h", "j", "m", "n", "o">>

toLowerCaseChar(ch) ==
    IF \E i \in DOMAIN UpperCase : UpperCase[i] = ch
    THEN LowerCase[CHOOSE i \in DOMAIN UpperCase : UpperCase[i] = ch]
    ELSE ch

toLowerCase(s) == [i \in DOMAIN s |-> toLowerCaseChar(s[i])]

\* /^[^\s@]+@[^\s@]+\.[^\s@]+$/.test(s)
emailRegexTest(s) ==
    \E i \in DOMAIN s :
        /\ s[i] = "@"
        /\ i > 1
        /\ \A k \in DOMAIN s : k # i => ~IsSpace(s[k]) /\ s[k] # "@"
        /\ \E j \in (i + 2)..(Len(s) - 1) : s[j] = "."

PaddedEmail ==
    <<" ", " ", "J", "O", "H", "N", "@", "A", "C", "M", "E", ".", "C", "O",
      "M", " ", " ">>
UpperEmail == <<"J", "O", "H", "N", "@", "A", "C", "M", "E", ".", "C", "O", "M">>
NormalEmail == <<"j", "o", "h", "n", "@", "a", "c", "m", "e", ".", "c", "o", "m">>
InvalidEmail == <<"i", "n", "v", "a", "l", "i", "d", "-", "e", "m", "a", "i", "l">>

ClientUpdateInputs ==
    {[email |-> PaddedEmail], [email |-> UpperEmail],
     [email |-> InvalidEmail],
     [company_name |-> <<" ", "A", "c", "m", "e", " ">>]}

ClientIdInputs == {"c1", "c2", "invalid-uuid"}

\* Lines 273-297: the updates as they are sent to the table
NormalizedClientUpdates(updates) ==
    [k \in DOMAIN updates |->
        IF updates[k] = <<>> THEN updates[k]
        ELSE IF k = "email" THEN toLowerCase(trim(updates[k]))
        ELSE trim(updates[k])]

ClientUpdateValidationError(id, updates) ==
    IF ~uuidRegexTest(id) THEN Some("Invalid UUID format")
    ELSE IF "email" \in DOMAIN updates /\ updates["email"] # <<>>
            /\ ~emailRegexTest(updates["email"])
      THEN Some("Invalid email format")
    ELSE Null

PatchedClient(row, sent) ==
    [k \in DOMAIN row |-> IF k \in DOMAIN sent THEN sent[k] ELSE row[k]]

\* from('clients').update(sent).eq('id', id).eq('user_id', userId)
\*   .select().single()
UpdateClientRow(cls, id, userId, sent, fault) ==
    LET rows == {c \in cls : c.id = id /\ c.user_id = userId}
    IN  IF fault.kind # "ok" THEN Failed(fault)
        ELSE IF rows = {} THEN Response(FALSE, "PGRST116", "no rows", Null)
        ELSE Response(FALSE, "", "",
                      Some(PatchedClient(CHOOSE r \in rows : TRUE, sent)))

UpdateClientErrorText(resp) ==
    IF resp.thrown THEN "An unexpected error occurred while updating the client"
    ELSE IF resp.error = "PGRST116" THEN "Client not found"
    ELSE IF resp.error = "23505" THEN "A client with this email already exists"
    ELSE MessageOr(resp.message, "Failed to update client")

\* updateClient, lines 248-341
UpdateClientCall(id, updates, fault) ==
    /\ ~Observing
    /\ nOps < MaxOps
    /\ LET v == IF getSession = Null THEN Some("Authentication required")
                ELSE ClientUpdateValidationError(id, updates)
           sent == NormalizedClientUpdates(updates)
           resp == IF v = Null
                   THEN UpdateClientRow(clients, id, getSession[1], sent, fault)
                   ELSE Response(FALSE, "", "", Null)
           failed == resp.thrown \/ resp.error # ""
           error == IF v # Null THEN v
                    ELSE IF failed THEN Some(UpdateClientErrorText(resp))
                    ELSE Null
       IN  /\ ret' = [op |-> "updateClient", arg |-> id,
                      input |-> Some(updates),
                      io |-> IF v = Null THEN <<"update clients">> ELSE <<>>,
                      data |-> IF error = Null THEN resp.data ELSE Null,
                      error |-> error]
           /\ clients' = IF error = Null
                         THEN {c \in clients : c.id # id} \cup {resp.data[1]}
                         ELSE clients
    /\ nOps' = nOps + 1
    /\ UNCHANGED <<app, session, freelancers, invoices, items, nextId, call,
                   lastNext, maxAssigned, resolved, everResolved>>

UpdateClientSeq(id, updates, fault) == Idle /\ UpdateClientCall(id, updates, fault)

\* The row of a freelancer: each profile belongs to one user
FreelancerRow(f) ==
    [id |-> f, user_id |-> profiles[f].user_id, name |-> profiles[f].name,
     email |-> profiles[f].email]

GetFreelancerErrorText(resp) ==
    IF resp.thrown
    THEN "An unexpected error occurred while fetching the freelancer"
    ELSE IF resp.error = "PGRST116" THEN "Freelancer not found"
    ELSE MessageOr(resp.message, "Failed to fetch freelancer")

\* getFreelancerById, freelancerService.ts lines 78-135
GetFreelancerByIdCall(id, fault) ==
    /\ ~Observing
    /\ nOps < MaxOps
    /\ LET v == IF getSession = Null THEN Some("Authentication required")
                ELSE IF ~uuidRegexTest(id) THEN Some("Invalid UUID format")
                ELSE Null
           rows == IF v = Null
                   THEN {r \in {FreelancerRow(f) : f \in freelancers} :
                            r.id = id /\ r.user_id = getSession[1]}
                   ELSE {}
           resp == SelectSingle(rows, fault)
           failed == resp.thrown \/ resp.error # ""
           error == IF v # Null THEN v
                    ELSE IF failed THEN Some(GetFreelancerErrorText(resp))
                    ELSE Null
       IN  ret' = [op |-> "getFreelancerById", arg |-> id, input |-> Null,
                   io |-> IF v = Null THEN <<"select freelancers">> ELSE <<>>,
                   data |-> IF error = Null THEN resp.data ELSE Null,
                   error |-> error]
    /\ nOps' = nOps + 1
    /\ UNCHANGED <<app, session, freelancers, clients, invoices, items, nextId,
                   call, lastNext, maxAssigned, resolved, everResolved>>

GetFreelancerByIdSeq(id, fault) == Idle /\ GetFreelancerByIdCall(id, fault)

\* One created invoice, for a signed-in or signed-out caller
AuthInputs ==
    {x \in ConcurrentInputs :
        x.invoice.freelancer_id = "f1" /\ x.items # <<>>}

\* Sequential use of the services by a caller who signs in and out
NextAuth ==
    \/ SignOut
    \/ \E u \in UserIds : SignIn(u)
    \/ \E fault \in Faults, id \in ClientIdInputs, updates \in ClientUpdateInputs :
           UpdateClientSeq(id, updates, fault)
    \/ CreateInvoiceSeq(AuthInputs, MaxOps)
    \/ Step("a", Faults) \/ Settle("a")
    \/ \E fault \in Faults, id \in InvoiceIdInputs :
           \/ DeleteInvoiceSeq(id, fault)
           \/ \E u \in UpdateInputs : UpdateInvoiceSeq(id, u, fault)
    \/ \E fault \in Faults, f \in DraftFreelancerIds :
           \/ GetNextInvoiceNumberSeq(f, fault)
           \/ GetFreelancerByIdSeq(f, fault)
    \/ Take

SpecAuth == Init /\ [][NextAuth]_vars

\* C16: a service call made with no authenticated session returns an error
\* and performs no storage read or write.
C16_NoSessionNoStorage ==
    [][ (session = Null /\ ret = NoReturn /\ ret' # NoReturn)
        => (ret'.error # Null /\ ret'.io = <<>>) ]_vars

\* An error that is neither null nor undefined (the message a storage error
\* does not carry is undefined)
NonNull(error) == error # Null /\ error # Some(Absent)

ExactlyOne(result) == (result.data # Null) # NonNull(result.error)

\* C17: every service call returns a result in which exactly one of data and
\* error is non-null, whichever storage step fails or throws.
C17_ExactlyOneOfDataAndError ==
    /\ \A c \in Slots : Returned_(c) => ExactlyOne(call[c].result)
    /\ ret # NoReturn => ExactlyOne(ret)

\* A call whose storage step threw has returned
C17_Witness ==
    /\ ret.op \in {"updateClient", "getFreelancerById"}
    /\ ret.io # <<>>
    /\ ret.data = Null
    /\ ret.error \in {Some("An unexpected error occurred while updating the client"),
                      Some("An unexpected error occurred while fetching the freelancer")}

\* C18: updateClient accepts the email '  JOHN@ACME.COM  ' and stores it
\* trimmed and lower-cased, as 'john@acme.com'.
C18_PaddedEmailNormalized ==
    [][ (/\ ret = NoReturn /\ ret'.op = "updateClient"
         /\ ret'.input = Some([email |-> PaddedEmail])
         /\ session # Null
         /\ \E c \in clients : c.id = ret'.arg /\ c.user_id = session[1])
        => /\ ret'.error # Some("Invalid email format")
           /\ ret'.error = Null =>
                  \E c \in clients' : c.id = ret'.arg /\ c.email = NormalEmail
      ]_vars

----------------------------------------------------------------------------
(* The invoice form: items and totals recalculated, then submitted *)

FormItem(quantity, rate) ==
    [description |-> WebDevelopment, quantity |-> quantity, rate |-> rate]

\* 1 x 2000.00 and 5 x 100.00
ScenarioItems == <<FormItem(100, 200000), FormItem(500, 10000)>>

FormItemsInputs ==
    {ScenarioItems,
     <<FormItem(150, 67)>>,
     <<FormItem(33, 1095), FormItem(100, 1095)>>}

TaxRateInputs == {0, 7, 20}

\* InvoiceForm.tsx lines 39-52: the items with their amounts, and the totals
CalculatedItems(formItems) ==
    [k \in DOMAIN formItems |->
        [description |-> formItems[k].description,
         quantity |-> formItems[k].quantity,
         rate |-> formItems[k].rate,
         amount |-> calculateItemAmount(formItems[k].quantity,
                                        formItems[k].rate)]]

CalculatedTotals(its, taxRate) ==
    LET subtotal == calculateSubtotal(its)
        taxAmount == calculateTaxAmount(subtotal, taxRate)
    IN  [subtotal |-> subtotal, tax_rate |-> taxRate,
         tax_amount |-> taxAmount,
         total |-> calculateTotal(subtotal, taxAmount)]

\* The drafts of a freelancer invoicing its own client from the form, the
\* number left to the service
CalculatedInputs ==
    { [invoice |-> Draft(fc[1], fc[2], Absent, "2024-01-15", "2024-02-14",
                         CalculatedTotals(CalculatedItems(formItems), taxRate),
                         "draft"),
       items |-> CalculatedItems(formItems)] :
        fc \in {<<"f1", "c1">>, <<"f2", "c2">>},
        formItems \in FormItemsInputs,
        taxRate \in TaxRateInputs }

NextCalc ==
    \/ CreateInvoiceSeq(CalculatedInputs, MaxFormCalls)
    \/ Step("a", Faults) \/ Settle("a")

SpecCalc == Init /\ [][NextCalc]_vars

\* amount is value / scale rounded to a nearest integer
Nearest(amount, value, scale) ==
    /\ 2 * (scale * amount - value) <= scale
    /\ 2 * (value - scale * amount) <= scale

RECURSIVE SumOfAmounts(_)
SumOfAmounts(rows) ==
    IF rows = {} THEN 0
    ELSE LET r == CHOOSE x \in rows : TRUE
         IN  r.amount + SumOfAmounts(rows \ {r})

\* C19: an invoice created from the calculator's amounts and totals is
\* returned with each amount = quantity * rate rounded to the cent, subtotal =
\* the sum of the amounts, tax_amount = subtotal * tax_rate / 100 rounded to
\* the cent and total = subtotal + tax_amount; it is numbered INV-001 when it
\* is the freelancer's only invoice; items 1 x 2000.00 and 5 x 100.00 at tax
\* rate 20 give 2500.00, 500.00 and 3000.00.
C19_CalculatedInvoice ==
    \A c \in Slots :
        Returned_(c) /\ call[c].result.error = Null =>
            LET inv == call[c].result.data[1].invoice
                rows == call[c].result.data[1].items
            IN  /\ \A r \in rows : Nearest(r.amount, r.quantity * r.rate, 100)
                /\ inv.subtotal = SumOfAmounts(rows)
                /\ Nearest(inv.tax_amount, inv.subtotal * inv.tax_rate, 100)
                /\ inv.total = inv.subtotal + inv.tax_amount
                /\ (\A i \in invoices :
                        i.freelancer_id = inv.freelancer_id => i.id = inv.id)
                   => inv.invoice_number = "INV-001"
                /\ ({<<r.quantity, r.rate>> : r \in rows}
                        = {<<100, 200000>>, <<500, 10000>>}
                    /\ inv.tax_rate = 20)
                   => /\ inv.subtotal = 250000
                      /\ inv.tax_amount = 50000
                      /\ inv.total = 300000

\* The scenario's invoice has been created as the freelancer's first
C19_Witness ==
    \E c \in Slots :
        /\ Returned_(c) /\ call[c].result.error = Null
        /\ call[c].items = CalculatedItems(ScenarioItems)
        /\ call[c].invoice.tax_rate = 20
        /\ call[c].result.data[1].invoice.invoice_number = "INV-001"
        /\ call[c].result.data[1].invoice.total = 300000

----------------------------------------------------------------------------
(* freelancerService and clientService: the calls the store makes *)

\* created_at: the rows of a table in the order they were inserted
CreatedRank(id) ==
    CASE id \in {"f1", "c1"} -> 1
      [] id \in {"f2", "c2"} -> 2
      [] id \in {"f8", "c8"} -> 3
      [] id \in {"f9", "c9"} -> 4
      [] OTHER -> 5 + (CHOOSE k \in 0..(MaxOps + 1) : InvoiceUuid(k) = id)

\* gen_random_uuid() for a new freelancer, a new client: an id not in use
FreshId(ids, used) ==
    CHOOSE id \in ids \ used :
        \A other \in ids \ used : CreatedRank(id) <= CreatedRank(other)

CanCreate(ids, used) == \E id \in ids : id \notin used

\* from('freelancers').insert(row).select().single(), with the unique index
\* of freelancers.email
InsertFreelancer(rows, row, fault) ==
    IF fault.kind # "ok" THEN Failed(fault)
    ELSE IF \E r \in rows : r.email = row.email
      THEN Response(FALSE, "23505",
                    "duplicate key value violates unique constraint", Null)
    ELSE Response(FALSE, "", "", Some(row))

\* createFreelancer, freelancerService.ts lines 19-70
CreateFreelancerCall(data, fault) ==
    /\ ~Observing
    /\ nOps < MaxOps
    /\ CanCreate(FreelancerUuids, freelancers)
    /\ LET v == IF getSession = Null THEN Some("Authentication required")
                ELSE Null
           id == FreshId(FreelancerUuids, freelancers)
           row == [id |-> id, user_id |-> IF v = Null THEN getSession[1] ELSE "",
                   name |-> data.name, email |-> data.email]
           resp == InsertFreelancer({FreelancerRow(f) : f \in freelancers},
                                    row, fault)
           error == IF v # Null THEN v
                    ELSE IF resp.thrown
                      THEN Some("An unexpected error occurred while creating the freelancer")
                    ELSE IF resp.error # ""
                      THEN Some(MessageOr(resp.message, "Failed to create freelancer"))
                    ELSE Null
       IN  /\ ret' = [op |-> "createFreelancer", arg |-> "", input |-> Some(data),
                      io |-> IF v = Null THEN <<"insert freelancers">> ELSE <<>>,
                      data |-> IF error = Null THEN Some(row) ELSE Null,
                      error |-> error]
           /\ freelancers' = IF error = Null THEN freelancers \cup {id}
                             ELSE freelancers
           /\ profiles' = IF error = Null
                          THEN [f \in freelancers \cup {id} |->
                                   IF f = id
                                   THEN [user_id |-> row.user_id, name |-> row.name,
                                         email |-> row.email]
                                   ELSE profiles[f]]
                          ELSE profiles
    /\ nOps' = nOps + 1
    /\ UNCHANGED <<store, storeCall, parked, local, session, clients, invoices, items, nextId,
                   call, lastNext, maxAssigned, resolved, everResolved>>

UpdateFreelancerErrorText(resp) ==
    IF resp.thrown
    THEN "An unexpected error occurred while updating the freelancer"
    ELSE IF resp.error = "PGRST116" THEN "Freelancer not found"
    ELSE MessageOr(resp.message, "Failed to update freelancer")

\* from('freelancers').update(updates).eq('id', id).eq('user_id', userId)
\*   .select().single()
UpdateFreelancerRow(rows, id, userId, updates, fault) ==
    LET hit == {r \in rows : r.id = id /\ r.user_id = userId}
    IN  IF fault.kind # "ok" THEN Failed(fault)
        ELSE IF hit = {} THEN Response(FALSE, "PGRST116", "no rows", Null)
        ELSE IF \E r \in rows \ hit : r.email = updates.email
          THEN Response(FALSE, "23505",
                        "duplicate key value violates unique constraint", Null)
        ELSE Response(FALSE, "", "",
                      Some([(CHOOSE r \in hit : TRUE) EXCEPT
                               !.name = updates.name,
                               !.email = updates.email]))

\* updateFreelancer, freelancerService.ts lines 186-250
UpdateFreelancerCall(id, updates, fault) ==
    /\ ~Observing
    /\ nOps < MaxOps
    /\ LET v == IF getSession = Null THEN Some("Authentication required")
                ELSE IF ~uuidRegexTest(id) THEN Some("Invalid UUID format")
                ELSE Null
           resp == IF v = Null
                   THEN UpdateFreelancerRow({FreelancerRow(f) : f \in freelancers},
                                            id, getSession[1], updates, fault)
                   ELSE Response(FALSE, "", "", Null)
           failed == resp.thrown \/ resp.error # ""
           error == IF v # Null THEN v
                    ELSE IF failed THEN Some(UpdateFreelancerErrorText(resp))
                    ELSE Null
       IN  /\ ret' = [op |-> "updateFreelancer", arg |-> id,
                      input |-> Some(updates),
                      io |-> IF v = Null THEN <<"update freelancers">> ELSE <<>>,
                      data |-> IF error = Null THEN resp.data ELSE Null,
                      error |-> error]
           /\ profiles' = IF error = Null
                          THEN [profiles EXCEPT ![id].name = updates.name,
                                                ![id].email = updates.email]
                          ELSE profiles
    /\ nOps' = nOps + 1
    /\ UNCHANGED <<store, storeCall, parked, local, session, freelancers, clients, invoices,
                   items, nextId, call, lastNext, maxAssigned, resolved,
                   everResolved>>

\* Lines 40-71 of clientService: the checks before the insert
CreateClientValidationError(data) ==
    IF ~uuidRegexTest(data.freelancer_id) THEN Some("Invalid freelancer ID format")
    ELSE IF trim(data.company_name) = <<>> THEN Some("Company name is required")
    ELSE IF trim(data.email) = <<>> THEN Some("Email is required")
    ELSE IF ~emailRegexTest(data.email) THEN Some("Invalid email format")
    ELSE Null

\* from('clients').insert(row).select().single(), with the foreign key of
\* clients.freelancer_id
InsertClient(frs, row, fault) ==
    IF fault.kind # "ok" THEN Failed(fault)
    ELSE IF row.freelancer_id \notin frs
      THEN Response(FALSE, "23503", "constraint violation", Null)
    ELSE Response(FALSE, "", "", Some(row))

CreateClientErrorText(resp) ==
    IF resp.thrown THEN "An unexpected error occurred while creating the client"
    ELSE IF resp.error = "23503"
      THEN "Invalid freelancer ID - freelancer does not exist"
    ELSE IF resp.error = "23505" THEN "A client with this email already exists"
    ELSE MessageOr(resp.message, "Failed to create client")

\* createClient, clientService lines 19-120
CreateClientCall(data, fault) ==
    /\ ~Observing
    /\ nOps < MaxOps
    /\ CanCreate(ClientUuids, Ids(clients))
    /\ LET v == IF getSession = Null THEN Some("Authentication required")
                ELSE CreateClientValidationError(data)
           row == [id |-> FreshId(ClientUuids, Ids(clients)),
                   freelancer_id |-> data.freelancer_id,
                   user_id |-> IF getSession = Null THEN "" ELSE getSession[1],
                   email |-> toLowerCase(trim(data.email)),
                   company_name |-> trim(data.company_name)]
           resp == IF v = Null THEN InsertClient(freelancers, row, fault)
                   ELSE Response(FALSE, "", "", Null)
           failed == resp.thrown \/ resp.error # ""
           error == IF v # Null THEN v
                    ELSE IF failed THEN Some(CreateClientErrorText(resp))
                    ELSE Null
       IN  /\ ret' = [op |-> "createClient", arg |-> "", input |-> Some(data),
                      io |-> IF v = Null THEN <<"insert clients">> ELSE <<>>,
                      data |-> IF error = Null THEN resp.data ELSE Null,
                      error |-> error]
           /\ clients' = IF error = Null THEN clients \cup {row} ELSE clients
    /\ nOps' = nOps + 1
    /\ UNCHANGED <<app, session, freelancers, invoices, items, nextId, call,
                   lastNext, maxAssigned, resolved, everResolved>>

\* from('clients').delete().eq('id', id).eq('user_id', userId): the client's
\* invoices and their items go with it (ON DELETE CASCADE)
ClientsAfterDelete(cls, id, userId) ==
    {c \in cls : ~(c.id = id /\ c.user_id = userId)}

InvoicesAfterDeleteClient(invs, clsAfter) ==
    {i \in invs : i.client_id \in Ids(clsAfter)}

ItemsOfInvoices(its, invs) == {it \in its : it.invoice_id \in Ids(invs)}

\* deleteClient, clientService lines 348-393
DeleteClientCall(id, fault) ==
    /\ ~Observing
    /\ nOps < MaxOps
    /\ LET v == IF getSession = Null THEN Some("Authentication required")
                ELSE IF ~uuidRegexTest(id) THEN Some("Invalid UUID format")
                ELSE Null
           ok == v = Null /\ fault.kind = "ok"
           clsAfter == IF ok THEN ClientsAfterDelete(clients, id, getSession[1])
                       ELSE clients
           invsAfter == InvoicesAfterDeleteClient(invoices, clsAfter)
           losers == Losers(invoices, invsAfter)
           error == IF v # Null THEN v
                    ELSE IF fault.kind = "throw"
                      THEN Some("An unexpected error occurred while deleting the client")
                    ELSE IF fault.kind = "error"
                      THEN Some(MessageOr(fault.message, "Failed to delete client"))
                    ELSE Null
       IN  /\ ret' = [op |-> "deleteClient", arg |-> id, input |-> Null,
                      io |-> IF v = Null THEN <<"delete clients">> ELSE <<>>,
                      data |-> IF error = Null THEN Some(TRUE) ELSE Null,
                      error |-> error]
           /\ clients' = clsAfter
           /\ invoices' = invsAfter
           /\ items' = ItemsOfInvoices(items, invsAfter)
           /\ call' = CallsAfterDelete(call, losers)
           /\ resolved' = ResolvedAfterDelete(resolved, losers)
           /\ lastNext' = LastNextAfter(lastNext, invoices, invsAfter)
    /\ nOps' = nOps + 1
    /\ UNCHANGED <<app, session, freelancers, nextId, maxAssigned, everResolved>>

----------------------------------------------------------------------------
(* useStore: the mutating operations *)

\* A Date: the day it holds, or Invalid Date
InvalidDate == [valid |-> FALSE, y |-> 0, m |-> 0, d |-> 0]
DateOf(y, m, d) == [valid |-> TRUE, y |-> y, m |-> m, d |-> d]

\* new Date(s) of a stored date
NewDate(s) == DateOf(DateFields[s][1], DateFields[s][2], DateFields[s][3])

\* date.toISOString().split('T')[0]; toISOString throws on Invalid Date
toISODate(date) ==
    NatToString(date.y) \o "-" \o padStart(NatToString(date.m), 2, "0")
        \o "-" \o padStart(NatToString(date.d), 2, "0")

\* if (error): null, undefined and '' are falsy
Truthy(error) == error # Null /\ error # Some("")

Group(op) ==
    IF op \in {"setFreelancer", "initializeApp"} THEN "freelancer"
    ELSE IF op \in {"loadClients", "addClient", "updateClient", "deleteClient"}
      THEN "clients"
    ELSE "invoices"

GroupLoading(s, group) ==
    IF group = "freelancer" THEN s.isLoading
    ELSE IF group = "clients" THEN s.isLoadingClients
    ELSE s.isLoadingInvoices

GroupError(s, group) ==
    IF group = "freelancer" THEN s.error
    ELSE IF group = "clients" THEN s.clientError
    ELSE s.invoiceError

\* A start that also raises the flag shared by the whole store
SharedLoading(s, group) ==
    IF group = "freelancer" THEN [s EXCEPT !.isLoading = TRUE, !.error = Null]
    ELSE IF group = "clients"
      THEN [s EXCEPT !.isLoadingClients = TRUE, !.clientError = Null,
                     !.isLoading = TRUE]
    ELSE [s EXCEPT !.isLoadingInvoices = TRUE, !.invoiceError = Null,
                   !.isLoading = TRUE]

\* set({ isLoadingX: true, xError: null })
Loading(s, group) ==
    IF group = "freelancer" THEN [s EXCEPT !.isLoading = TRUE, !.error = Null]
    ELSE IF group = "clients"
      THEN [s EXCEPT !.isLoadingClients = TRUE, !.clientError = Null]
    ELSE [s EXCEPT !.isLoadingInvoices = TRUE, !.invoiceError = Null]

\* A failure that is reported while the flag stays raised
StillLoading(s, group, message) ==
    IF group = "freelancer" THEN [s EXCEPT !.error = Some(message)]
    ELSE IF group = "clients" THEN [s EXCEPT !.clientError = Some(message)]
    ELSE [s EXCEPT !.invoiceError = Some(message)]

\* set({ xError: message, isLoadingX: false })
Failure(s, group, message) ==
    IF group = "freelancer"
    THEN [s EXCEPT !.error = Some(message), !.isLoading = FALSE]
    ELSE IF group = "clients"
      THEN [s EXCEPT !.clientError = Some(message), !.isLoadingClients = FALSE]
    ELSE [s EXCEPT !.invoiceError = Some(message), !.isLoadingInvoices = FALSE]

\* The freelancer, clients and invoices of the snapshot
Snapshot(s) ==
    [freelancer |-> s.freelancer, clients |-> s.clients, invoices |-> s.invoices]

\* No service call and no store operation is in progress
StoreReady ==
    /\ Idle /\ ~Observing
    /\ storeCall.pc # "await"
    /\ nOps < MaxOps

\* The ids the lists of the snapshot show
ShownIds(seq) == {seq[i].id : i \in DOMAIN seq}

\* The lists of the snapshot show the rows persisted for its freelancer
SnapshotMatchesRemote ==
    /\ store.freelancer # Null
    /\ ShownIds(store.clients) =
           {r.id : r \in {c \in clients :
                              c.freelancer_id = store.freelancer[1].id}}
    /\ ShownIds(store.invoices) =
           {r.id : r \in {i \in invoices :
                              i.freelancer_id = store.freelancer[1].id}}

\* The operation runs up to its await
Called(op, arg, input) ==
    [op |-> op, pc |-> "await", arg |-> arg, input |-> Some(input),
     thrown |-> FALSE, before |-> Some(Snapshot(store)),
     synced |-> SnapshotMatchesRemote]

\* The operation has run to its end
Finished(rec, thrown) == [rec EXCEPT !.pc = "done", !.thrown = thrown]

Awaiting(op) == storeCall.pc = "await" /\ storeCall.op = op

NoFreelancerFound == "No freelancer found. Please set up your profile first."

\* What the services and the other operations leave alone
StoreFrame ==
    UNCHANGED <<parked, local, profiles, session, freelancers, clients,
                invoices, items, nextId, call, ret, nOps, lastNext, maxAssigned, resolved,
                everResolved>>

SelectMapped(seq, Keep(_), Map(_)) ==
    LET F[i \in 0..Len(seq)] ==
            IF i = 0 THEN <<>>
            ELSE IF Keep(seq[i]) THEN Append(F[i - 1], Map(seq[i]))
            ELSE F[i - 1]
    IN  F[Len(seq)]

----------------------------------------------------------------------------
(* setFreelancer, useStore.ts lines 238-306 *)

FreelancerInputs ==
    {[name |-> "Jane Dev", email |-> "jane@x"], [name |-> "Jane", email |-> "j@x"]}

SetFreelancer(freelancerData) ==
    /\ StoreReady
    /\ store' = Loading(store, "freelancer")
    /\ storeCall' = Called("setFreelancer", "", freelancerData)
    /\ StoreFrame

SetFreelancerService(fault) ==
    /\ Awaiting("setFreelancer")
    /\ LET currentFreelancer == storeCall.before[1].freelancer
       IN  IF currentFreelancer # Null
           THEN UpdateFreelancerCall(currentFreelancer[1].id,
                                     storeCall.input[1], fault)
           ELSE CreateFreelancerCall(storeCall.input[1], fault)

\* The freelancer of the snapshot for a row of the table
TransformedFreelancer(row) ==
    [id |-> row.id, name |-> row.name, email |-> row.email]

SetFreelancerDone ==
    /\ Awaiting("setFreelancer")
    /\ ret.op \in {"updateFreelancer", "createFreelancer"}
    /\ store' = IF Truthy(ret.error)
                THEN Failure(store, "freelancer", ret.error[1])
                ELSE IF ret.data # Null
                  THEN [store EXCEPT
                          !.freelancer = Some(TransformedFreelancer(ret.data[1])),
                          !.isLoading = FALSE]
                ELSE store
    /\ storeCall' = Finished(storeCall, FALSE)
    /\ StoreFrame

----------------------------------------------------------------------------
(* addClient, updateClient, deleteClient: useStore.ts lines 309-416 *)

ClientInputs ==
    {[companyName |-> <<"A", "c", "m", "e">>, email |-> UpperEmail],
     [companyName |-> Blank, email |-> UpperEmail]}

AddClient(clientData) ==
    /\ StoreReady
    /\ IF store.freelancer = Null
       THEN /\ store' = [store EXCEPT !.clientError = Some(NoFreelancerFound)]
            /\ storeCall' = Finished(Called("addClient", "", clientData), FALSE)
       ELSE /\ store' = Loading(store, "clients")
            /\ storeCall' = Called("addClient", "", clientData)
    /\ StoreFrame

AddClientService(fault) ==
    /\ Awaiting("addClient")
    /\ CreateClientCall([freelancer_id |-> storeCall.before[1].freelancer[1].id,
                         company_name |-> storeCall.input[1].companyName,
                         email |-> storeCall.input[1].email], fault)

\* The client of the snapshot for a row of the table
TransformedClient(row) ==
    [id |-> row.id, companyName |-> row.company_name, email |-> row.email]

AddClientDone ==
    /\ Awaiting("addClient")
    /\ ret.op = "createClient"
    /\ store' = IF Truthy(ret.error)
                THEN Failure(store, "clients", ret.error[1])
                ELSE IF ret.data # Null
                  THEN [store EXCEPT
                          !.clients = Append(@, TransformedClient(ret.data[1])),
                          !.isLoadingClients = FALSE]
                ELSE store
    /\ storeCall' = Finished(storeCall, FALSE)
    /\ StoreFrame

ClientUpdateData ==
    {[email |-> PaddedEmail], [email |-> UpperEmail],
     [companyName |-> <<" ", "A", "c", "m", "e", " ">>]}

\* The fields updateClient hands to the service: a field that is not given
\* is undefined and is not sent
ClientUpdatesOf(updateData) ==
    [k \in {IF f = "companyName" THEN "company_name" ELSE f :
                f \in DOMAIN updateData} |->
        IF k = "company_name" THEN updateData["companyName"] ELSE updateData[k]]

StoreUpdateClient(id, updateData) ==
    /\ StoreReady
    /\ store' = Loading(store, "clients")
    /\ storeCall' = Called("updateClient", id, updateData)
    /\ StoreFrame

StoreUpdateClientService(fault) ==
    /\ Awaiting("updateClient")
    /\ UpdateClientCall(storeCall.arg, ClientUpdatesOf(storeCall.input[1]), fault)

PatchedSnapshotClient(client, row) ==
    [client EXCEPT !.companyName = row.company_name, !.email = row.email]

\* The change is applied to the list the call saw when it was issued
StoreUpdateClientDoneFromCall ==
    /\ Awaiting("updateClient")
    /\ ret.op = "updateClient"
    /\ store' = IF Truthy(ret.error)
                THEN Failure(store, "clients", ret.error[1])
                ELSE IF ret.data # Null
                  THEN [store EXCEPT
                          !.clients =
                              [i \in DOMAIN storeCall.before[1].clients |->
                                  IF storeCall.before[1].clients[i].id = storeCall.arg
                                  THEN PatchedSnapshotClient(
                                           storeCall.before[1].clients[i],
                                           ret.data[1])
                                  ELSE storeCall.before[1].clients[i]],
                          !.isLoadingClients = FALSE]
                ELSE store
    /\ storeCall' = Finished(storeCall, FALSE)
    /\ StoreFrame

StoreUpdateClientDone ==
    /\ Awaiting("updateClient")
    /\ ret.op = "updateClient"
    /\ store' = IF Truthy(ret.error)
                THEN Failure(store, "clients", ret.error[1])
                ELSE IF ret.data # Null
                  THEN [store EXCEPT
                          !.clients =
                              [i \in DOMAIN @ |->
                                  IF @[i].id = storeCall.arg
                                  THEN PatchedSnapshotClient(@[i], ret.data[1])
                                  ELSE @[i]],
                          !.isLoadingClients = FALSE]
                ELSE store
    /\ storeCall' = Finished(storeCall, FALSE)
    /\ StoreFrame

StoreDeleteClient(id) ==
    /\ StoreReady
    /\ store' = Loading(store, "clients")
    /\ storeCall' = Called("deleteClient", id, <<>>)
    /\ StoreFrame

StoreDeleteClientService(fault) ==
    /\ Awaiting("deleteClient")
    /\ DeleteClientCall(storeCall.arg, fault)

Different(id, x) == x.id # id
Same(x) == x

StoreDeleteClientDone ==
    /\ Awaiting("deleteClient")
    /\ ret.op = "deleteClient"
    /\ store' = IF Truthy(ret.error)
                THEN Failure(store, "clients", ret.error[1])
                ELSE [store EXCEPT
                        !.clients = SelectMapped(@, LAMBDA x : Different(storeCall.arg, x),
                                                 Same),
                        !.isLoadingClients = FALSE]
    /\ storeCall' = Finished(storeCall, FALSE)
    /\ StoreFrame

----------------------------------------------------------------------------
(* addInvoice, updateInvoice, deleteInvoice: useStore.ts lines 421-558 *)

\* What the form hands over: the client chosen, the dates and the items
InvoiceDataInputs ==
    { [client |-> c, dateIssued |-> issued, dueDate |-> DateOf(2024, 2, 14),
       items |-> <<GoodItem, PaddedItem>>, totals |-> GoodTotals,
       status |-> "draft"] :
        c \in {"c1", "c9"}, issued \in {DateOf(2024, 1, 15), InvalidDate} }

\* dbInvoiceData and dbItemsData
DbInvoiceData(freelancer, invoiceData) ==
    [invoice |-> Draft(freelancer.id, invoiceData.client, Absent,
                       toISODate(invoiceData.dateIssued),
                       toISODate(invoiceData.dueDate),
                       invoiceData.totals, invoiceData.status),
     items |-> invoiceData.items]

AddInvoice(invoiceData) ==
    /\ StoreReady
    /\ IF store.freelancer = Null
       THEN /\ store' = [store EXCEPT !.invoiceError = Some(NoFreelancerFound)]
            /\ storeCall' = Finished(Called("addInvoice", "", invoiceData), FALSE)
       ELSE IF ~invoiceData.dateIssued.valid \/ ~invoiceData.dueDate.valid
       THEN /\ store' = Failure(Loading(store, "invoices"), "invoices",
                                "Failed to create invoice")
            /\ storeCall' = Finished(Called("addInvoice", "", invoiceData), TRUE)
       ELSE /\ store' = Loading(store, "invoices")
            /\ storeCall' = Called("addInvoice", "", invoiceData)
    /\ StoreFrame

AddInvoiceService ==
    /\ Awaiting("addInvoice")
    /\ CreateInvoice("a", DbInvoiceData(storeCall.before[1].freelancer[1],
                                       storeCall.input[1]))

\* The invoice of the snapshot for a created invoice
TransformedInvoice(invoice, invoiceData) ==
    [id |-> invoice.id, invoiceNumber |-> invoice.invoice_number,
     dateIssued |-> NewDate(invoice.date_issued),
     dueDate |-> NewDate(invoice.due_date),
     client |-> invoiceData.client, status |-> invoice.status]

AddInvoiceDone ==
    /\ Awaiting("addInvoice")
    /\ call["a"].pc = "returned"
    /\ LET result == call["a"].result
       IN  store' = IF Truthy(result.error)
                    THEN Failure(store, "invoices", result.error[1])
                    ELSE IF result.data # Null
                      THEN [store EXCEPT
                              !.invoices =
                                  Append(@, TransformedInvoice(result.data[1].invoice,
                                                               storeCall.input[1])),
                              !.isLoadingInvoices = FALSE]
                    ELSE store
    /\ storeCall' = Finished(storeCall, FALSE)
    /\ StoreFrame

InvoiceUpdateData ==
    {[status |-> "paid"], [status |-> "archived"],
     [dueDate |-> DateOf(2024, 2, 14)], [dueDate |-> InvalidDate]}

\* dbUpdateData
DbUpdateData(updateData) ==
    [k \in {IF f = "dueDate" THEN "due_date" ELSE f :
                f \in {g \in DOMAIN updateData :
                          g = "status" => updateData[g] # ""}} |->
        IF k = "due_date" THEN toISODate(updateData["dueDate"])
        ELSE updateData[k]]

UpdateDataThrows(updateData) ==
    "dueDate" \in DOMAIN updateData /\ ~updateData["dueDate"].valid

StoreUpdateInvoice(id, updateData) ==
    /\ StoreReady
    /\ IF UpdateDataThrows(updateData)
       THEN /\ store' = Failure(Loading(store, "invoices"), "invoices",
                                "Failed to update invoice")
            /\ storeCall' = Finished(Called("updateInvoice", id, updateData), TRUE)
       ELSE /\ store' = Loading(store, "invoices")
            /\ storeCall' = Called("updateInvoice", id, updateData)
    /\ StoreFrame

StoreUpdateInvoiceService(fault) ==
    /\ Awaiting("updateInvoice")
    /\ UpdateInvoiceCall(storeCall.arg, DbUpdateData(storeCall.input[1]), fault)

PatchedSnapshotInvoice(invoice, row) ==
    [invoice EXCEPT !.status = row.status,
                    !.dateIssued = NewDate(row.date_issued),
                    !.dueDate = NewDate(row.due_date)]

StoreUpdateInvoiceDone ==
    /\ Awaiting("updateInvoice")
    /\ ret.op = "updateInvoice"
    /\ store' = IF Truthy(ret.error)
                THEN Failure(store, "invoices", ret.error[1])
                ELSE IF ret.data # Null
                  THEN [store EXCEPT
                          !.invoices =
                              [i \in DOMAIN @ |->
                                  IF @[i].id = storeCall.arg
                                  THEN PatchedSnapshotInvoice(@[i], ret.data[1])
                                  ELSE @[i]],
                          !.isLoadingInvoices = FALSE]
                ELSE store
    /\ storeCall' = Finished(storeCall, FALSE)
    /\ StoreFrame

StoreDeleteInvoice(id) ==
    /\ StoreReady
    /\ store' = Loading(store, "invoices")
    /\ storeCall' = Called("deleteInvoice", id, <<>>)
    /\ StoreFrame

StoreDeleteInvoiceService(fault) ==
    /\ Awaiting("deleteInvoice")
    /\ DeleteInvoiceCall(storeCall.arg, fault)

StoreDeleteInvoiceDone ==
    /\ Awaiting("deleteInvoice")
    /\ ret.op = "deleteInvoice"
    /\ store' = IF Truthy(ret.error)
                THEN Failure(store, "invoices", ret.error[1])
                ELSE [store EXCEPT
                        !.invoices = SelectMapped(@, LAMBDA x : Different(storeCall.arg, x),
                                                  Same),
                        !.isLoadingInvoices = FALSE]
    /\ storeCall' = Finished(storeCall, FALSE)
    /\ StoreFrame

\* The results are dropped once the operation has read them
StoreTake == storeCall.pc # "await" /\ Take
StoreSettle == storeCall.pc # "await" /\ Settle("a")

\* The operations of the store, each called after the previous one ended
NextStore ==
    \/ \E freelancerData \in FreelancerInputs : SetFreelancer(freelancerData)
    \/ \E fault \in Faults : SetFreelancerService(fault)
    \/ SetFreelancerDone
    \/ \E clientData \in ClientInputs : AddClient(clientData)
    \/ \E fault \in Faults : AddClientService(fault)
    \/ AddClientDone
    \/ \E id \in ClientIdInputs \cup {"c9"}, updateData \in ClientUpdateData :
           StoreUpdateClient(id, updateData)
    \/ \E fault \in Faults : StoreUpdateClientService(fault)
    \/ StoreUpdateClientDone
    \/ \E id \in ClientIdInputs \cup {"c9"} : StoreDeleteClient(id)
    \/ \E fault \in Faults : StoreDeleteClientService(fault)
    \/ StoreDeleteClientDone
    \/ \E invoiceData \in InvoiceDataInputs : AddInvoice(invoiceData)
    \/ AddInvoiceService
    \/ Step("a", Faults)
    \/ AddInvoiceDone
    \/ \E id \in InvoiceIdInputs, updateData \in InvoiceUpdateData :
           StoreUpdateInvoice(id, updateData)
    \/ \E fault \in Faults : StoreUpdateInvoiceService(fault)
    \/ StoreUpdateInvoiceDone
    \/ \E id \in InvoiceIdInputs : StoreDeleteInvoice(id)
    \/ \E fault \in Faults : StoreDeleteInvoiceService(fault)
    \/ StoreDeleteInvoiceDone
    \/ StoreTake
    \/ StoreSettle

SpecStore == Init /\ [][NextStore]_vars

\* The error the service returned to the store operation that has just ended
ReturnedError ==
    IF ret # NoReturn THEN ret.error
    ELSE IF call["a"].pc = "returned" THEN call["a"].result.error
    ELSE Null

\* C20: when the service returns an error to a mutating store operation, or
\* the operation throws, the snapshot's freelancer, clients and invoices are
\* what they were before the call, the error message of the operation's group
\* is set and the group's loading flag ends false.
C20_FailureLeavesSnapshot ==
    storeCall.pc = "done" /\ (storeCall.thrown \/ ReturnedError # Null) =>
        /\ Snapshot(store) = storeCall.before[1]
        /\ GroupError(store, Group(storeCall.op)) # Null
        /\ ReturnedError # Null =>
               GroupError(store, Group(storeCall.op)) = ReturnedError
        /\ ~GroupLoading(store, Group(storeCall.op))

\* addInvoice has failed in the service with a freelancer and a client in the
\* snapshot
C20_Witness ==
    /\ storeCall.pc = "done" /\ storeCall.op = "addInvoice"
    /\ ReturnedError # Null
    /\ store.freelancer # Null
    /\ store.clients # <<>>
    /\ store.invoiceError = ReturnedError

----------------------------------------------------------------------------
(* The reads of the store: getAllFreelancers, getClientsForFreelancer and  *)
(* getInvoicesForFreelancer                                                *)

\* order('created_at', { ascending: false })
NewestFirst(rows) ==
    LET F[S \in SUBSET rows] ==
            IF S = {} THEN <<>>
            ELSE LET r == CHOOSE x \in S :
                              \A y \in S : CreatedRank(y.id) <= CreatedRank(x.id)
                 IN  <<r>> \o F[S \ {r}]
    IN  F[rows]

\* from(table).select('*').eq(...).order(...)
SelectList(rows, fault) ==
    IF fault.kind # "ok" THEN Failed(fault)
    ELSE Response(FALSE, "", "", Some(NewestFirst(rows)))

\* { data: data || [], error: null }, or the error of the query
ListResult(resp, what) ==
    IF resp.thrown
    THEN [data |-> Null,
          error |-> Some("An unexpected error occurred while fetching " \o what)]
    ELSE IF resp.error # ""
      THEN [data |-> Null,
            error |-> Some(MessageOr(resp.message, "Failed to fetch " \o what))]
    ELSE [data |-> resp.data, error |-> Null]

\* freelancerService.ts lines 141-180
getAllFreelancers(fault) ==
    IF getSession = Null
    THEN [data |-> Null, error |-> Some("Authentication required")]
    ELSE ListResult(SelectList({r \in {FreelancerRow(f) : f \in freelancers} :
                                   r.user_id = getSession[1]}, fault),
                    "freelancers")

\* clientService.ts lines 129-178
getClientsForFreelancer(freelancer_id, fault) ==
    IF getSession = Null
    THEN [data |-> Null, error |-> Some("Authentication required")]
    ELSE IF ~uuidRegexTest(freelancer_id)
      THEN [data |-> Null, error |-> Some("Invalid freelancer ID format")]
    ELSE ListResult(SelectList({r \in clients :
                                   /\ r.freelancer_id = freelancer_id
                                   /\ r.user_id = getSession[1]}, fault),
                    "clients")

\* invoiceService.ts lines 241-287: no session is asked for
getInvoicesForFreelancer(freelancer_id, fault) ==
    IF ~uuidRegexTest(freelancer_id)
    THEN [data |-> Null, error |-> Some("Invalid freelancer ID format")]
    ELSE ListResult(SelectList({r \in invoices : r.freelancer_id = freelancer_id},
                               fault),
                    "invoices")

\* The result of a read as the store operation receives it
ReadReturn(op, arg, result) ==
    [op |-> op, arg |-> arg, input |-> Null, io |-> <<"select">>,
     data |-> result.data, error |-> result.error]

\* A read changes no table
ReadFrame ==
    UNCHANGED <<app, session, freelancers, clients, invoices, items, nextId,
                call, lastNext, maxAssigned, resolved, everResolved>>

----------------------------------------------------------------------------
(* loadClients, loadInvoices: useStore.ts lines 143-235 *)

\* data || []
RowsOf(result) == IF result.data = Null THEN <<>> ELSE result.data[1]

\* What loadClients sets once getClientsForFreelancer has answered
LoadedClients(s, result) ==
    IF Truthy(result.error) THEN Failure(s, "clients", result.error[1])
    ELSE [s EXCEPT
            !.clients = [i \in DOMAIN RowsOf(result) |->
                            TransformedClient(RowsOf(result)[i])],
            !.isLoadingClients = FALSE]

\* The invoice of the snapshot for a row read with its relations
LoadedInvoice(row) ==
    [id |-> row.id, invoiceNumber |-> row.invoice_number,
     dateIssued |-> NewDate(row.date_issued),
     dueDate |-> NewDate(row.due_date),
     client |-> row.client_id, status |-> row.status]

\* What loadInvoices sets once getInvoicesForFreelancer has answered
LoadedInvoices(s, result) ==
    IF Truthy(result.error) THEN Failure(s, "invoices", result.error[1])
    ELSE [s EXCEPT
            !.invoices = [i \in DOMAIN RowsOf(result) |->
                             LoadedInvoice(RowsOf(result)[i])],
            !.isLoadingInvoices = FALSE]

LoadClients(freelancerId) ==
    /\ StoreReady
    /\ store' = Loading(store, "clients")
    /\ storeCall' = Called("loadClients", freelancerId, <<>>)
    /\ StoreFrame

LoadClientsService(fault) ==
    /\ Awaiting("loadClients")
    /\ ~Observing
    /\ nOps < MaxOps
    /\ ret' = ReadReturn("getClientsForFreelancer", storeCall.arg,
                         getClientsForFreelancer(storeCall.arg, fault))
    /\ nOps' = nOps + 1
    /\ ReadFrame

LoadClientsDone ==
    /\ Awaiting("loadClients")
    /\ ret.op = "getClientsForFreelancer"
    /\ store' = LoadedClients(store, ret)
    /\ storeCall' = Finished(storeCall, FALSE)
    /\ StoreFrame

LoadInvoices(freelancerId) ==
    /\ StoreReady
    /\ store' = Loading(store, "invoices")
    /\ storeCall' = Called("loadInvoices", freelancerId, <<>>)
    /\ StoreFrame

LoadInvoicesService(fault) ==
    /\ Awaiting("loadInvoices")
    /\ ~Observing
    /\ nOps < MaxOps
    /\ ret' = ReadReturn("getInvoicesForFreelancer", storeCall.arg,
                         getInvoicesForFreelancer(storeCall.arg, fault))
    /\ nOps' = nOps + 1
    /\ ReadFrame

LoadInvoicesDone ==
    /\ Awaiting("loadInvoices")
    /\ ret.op = "getInvoicesForFreelancer"
    /\ store' = LoadedInvoices(store, ret)
    /\ storeCall' = Finished(storeCall, FALSE)
    /\ StoreFrame

----------------------------------------------------------------------------
(* initializeApp and clearAllData: useStore.ts lines 70-141 *)

\* set({ ..., isLoading: false, isInitialized: true })
Initialized(s) == [s EXCEPT !.isLoading = FALSE, !.isInitialized = TRUE]

\* clearAllData: every field is as it was created
clearAllData == InitialStore

InitializeApp ==
    /\ StoreReady
    /\ store' = Loading(store, "freelancer")
    /\ storeCall' = Called("initializeApp", "getUser", <<>>)
    /\ StoreFrame

\* supabase.auth.getUser() has answered
InitializeAppUser(fault) ==
    /\ Awaiting("initializeApp")
    /\ storeCall.arg = "getUser"
    /\ ~Observing
    /\ IF fault.kind = "throw"
       THEN /\ store' = Initialized([store EXCEPT !.error =
                            Some("Failed to initialize application")])
            /\ storeCall' = Finished(storeCall, TRUE)
       ELSE IF fault.kind = "error" \/ session = Null
       THEN /\ store' = Initialized([store EXCEPT !.error =
                            Some("No authenticated user found")])
            /\ storeCall' = Finished(storeCall, FALSE)
       ELSE /\ store' = store
            /\ storeCall' = [storeCall EXCEPT !.arg = "getAllFreelancers",
                                              !.input = Some(session[1])]
    /\ StoreFrame

\* freelancers?.find(f => f.user_id === user.id || f.id === user.id)
UserFreelancers(result, user) ==
    SelectSeq(RowsOf(result), LAMBDA f : f.user_id = user \/ f.id = user)

\* getAllFreelancers has answered: the freelancer is set and both loads are
\* called
InitializeAppFreelancers(fault) ==
    /\ Awaiting("initializeApp")
    /\ storeCall.arg = "getAllFreelancers"
    /\ ~Observing
    /\ LET result == getAllFreelancers(fault)
           found == UserFreelancers(result, storeCall.input[1])
       IN  IF Truthy(result.error)
           THEN /\ store' = Initialized([store EXCEPT !.error = result.error])
                /\ storeCall' = Finished(storeCall, FALSE)
           ELSE IF found # <<>>
           THEN /\ store' = Loading(Loading(
                                [store EXCEPT !.freelancer =
                                    Some(TransformedFreelancer(found[1]))],
                                "clients"), "invoices")
                /\ storeCall' = [storeCall EXCEPT !.arg = "load",
                                                  !.input = Some(found[1].id)]
           ELSE /\ store' = Initialized(store)
                /\ storeCall' = Finished(storeCall, FALSE)
    /\ StoreFrame

\* Promise.all of loadClients and loadInvoices has settled
InitializeAppLoaded(clientsFault, invoicesFault) ==
    /\ Awaiting("initializeApp")
    /\ storeCall.arg = "load"
    /\ ~Observing
    /\ LET id == storeCall.input[1]
       IN  store' = Initialized(
                        LoadedInvoices(
                            LoadedClients(store,
                                getClientsForFreelancer(id, clientsFault)),
                            getInvoicesForFreelancer(id, invoicesFault)))
    /\ storeCall' = Finished(storeCall, FALSE)
    /\ StoreFrame

----------------------------------------------------------------------------
(* The application: AppContent and Layout call the store for the signed-in *)
(* user, one operation after the other                                     *)

\* The storage client fails with a message, or not at all
AppFaults == {x \in Faults : x.kind = "ok" \/ x.message # ""}

AppInvoiceInputs == {x \in InvoiceDataInputs : x.dateIssued.valid}

\* AppContent: if (user && !isInitialized) initializeApp()
AppContentEffect ==
    /\ session # Null
    /\ ~store.isInitialized
    /\ InitializeApp

\* Layout: the lists are loaded again for the freelancer of the snapshot
LayoutEffect ==
    /\ session # Null
    /\ store.freelancer # Null
    /\ store.isInitialized
    /\ \/ LoadClients(store.freelancer[1].id)
       \/ LoadInvoices(store.freelancer[1].id)

\* Layout.handleSignOut: signOut() of the auth context, and nothing else
HandleSignOut == storeCall.pc # "await" /\ ~Observing /\ SignOut

\* The sign-in form
HandleSignIn(u) == storeCall.pc # "await" /\ ~Observing /\ SignIn(u)

\* What the user who is signed in from the start does
NextUser ==
    \/ AppContentEffect
    \/ \E fault \in AppFaults : InitializeAppUser(fault)
    \/ \E fault \in AppFaults : InitializeAppFreelancers(fault)
    \/ \E clientsFault \in AppFaults, invoicesFault \in AppFaults :
           InitializeAppLoaded(clientsFault, invoicesFault)
    \/ LayoutEffect
    \/ \E fault \in AppFaults : LoadClientsService(fault)
    \/ LoadClientsDone
    \/ \E fault \in AppFaults : LoadInvoicesService(fault)
    \/ LoadInvoicesDone
    \/ session # Null /\ SetFreelancer([name |-> "Jane", email |-> "j@x"])
    \/ \E fault \in AppFaults : SetFreelancerService(fault)
    \/ SetFreelancerDone
    \/ session # Null
         /\ AddClient([companyName |-> <<"A", "c", "m", "e">>, email |-> UpperEmail])
    \/ \E fault \in AppFaults : AddClientService(fault)
    \/ AddClientDone
    \/ session # Null
         /\ \E id \in ShownIds(store.clients) :
                StoreUpdateClient(id, [email |-> UpperEmail])
    \/ \E fault \in AppFaults : StoreUpdateClientService(fault)
    \/ StoreUpdateClientDone
    \/ session # Null
         /\ \E id \in ShownIds(store.clients) : StoreDeleteClient(id)
    \/ \E fault \in AppFaults : StoreDeleteClientService(fault)
    \/ StoreDeleteClientDone
    \/ session # Null
         /\ \E invoiceData \in AppInvoiceInputs :
                /\ invoiceData.client \in ShownIds(store.clients)
                /\ AddInvoice(invoiceData)
    \/ AddInvoiceService
    \/ Step("a", AppFaults)
    \/ AddInvoiceDone
    \/ session # Null
         /\ \E id \in ShownIds(store.invoices) :
                StoreUpdateInvoice(id, [status |-> "paid"])
    \/ \E fault \in AppFaults : StoreUpdateInvoiceService(fault)
    \/ StoreUpdateInvoiceDone
    \/ session # Null
         /\ \E id \in ShownIds(store.invoices) : StoreDeleteInvoice(id)
    \/ \E fault \in AppFaults : StoreDeleteInvoiceService(fault)
    \/ StoreDeleteInvoiceDone
    \/ StoreTake
    \/ StoreSettle

SpecUser == Init /\ [][NextUser]_vars

\* The same with users signing out and in
NextApp ==
    \/ NextUser
    \/ HandleSignOut
    \/ \E u \in UserIds : HandleSignIn(u)

SpecApp == Init /\ [][NextApp]_vars

MutatingOperations ==
    {"addClient", "updateClient", "deleteClient",
     "addInvoice", "updateInvoice", "deleteInvoice"}

\* The store operation that has just ended called its service and got no
\* error
Succeeded ==
    /\ storeCall.pc = "done"
    /\ Observing
    /\ ~storeCall.thrown
    /\ ReturnedError = Null
    /\ GroupError(store, Group(storeCall.op)) = Null

\* The freelancer of the snapshot is the profile of the signed-in user
SignedInFreelancer ==
    /\ session # Null
    /\ store.freelancer # Null
    /\ profiles[store.freelancer[1].id].user_id = session[1]

\* C22: under sequential use, after every successful mutating store
\* operation of the signed-in freelancer that was called on a snapshot
\* matching the tables, the ids in the clients and invoices lists of the
\* snapshot are exactly the ids of the freelancer's persisted clients and
\* invoices.
C22_SnapshotMatchesAfterMutation ==
    /\ storeCall.op \in MutatingOperations
    /\ Succeeded
    /\ storeCall.synced
    /\ SignedInFreelancer
    => SnapshotMatchesRemote

\* C23: once the user has signed out, the snapshot holds no freelancer, no
\* clients and no invoices and isInitialized is false, so the next user to
\* sign in sees nothing of the previous user and the application initializes
\* again.
C23_SignOutResetsStore ==
    session = Null =>
        /\ Snapshot(store) = Snapshot(clearAllData)
        /\ ~store.isInitialized

----------------------------------------------------------------------------
(* Operations issued without awaiting the previous one: each runs to its  *)
(* await, and the continuations run in the order the answers arrive        *)

\* The operation in progress waits at its await, before or after its service
\* has answered, and the caller goes on
Park ==
    /\ storeCall.pc = "await"
    /\ Idle
    /\ \E w \in Waiting :
           /\ parked[w] = Null
           /\ parked' = [parked EXCEPT
                           ![w] = Some([storeCall |-> storeCall, ret |-> ret])]
    /\ storeCall' = NoStoreCall
    /\ ret' = NoReturn
    /\ UNCHANGED <<store, local, profiles, session, freelancers, clients,
                   invoices, items, nextId, call, nOps, lastNext, maxAssigned,
                   resolved, everResolved>>

\* A waiting operation goes on
Resume(w) ==
    /\ storeCall.pc # "await"
    /\ Idle /\ ~Observing
    /\ parked[w] # Null
    /\ storeCall' = parked[w][1].storeCall
    /\ ret' = parked[w][1].ret
    /\ parked' = [parked EXCEPT ![w] = Null]
    /\ UNCHANGED <<store, local, profiles, session, freelancers, clients,
                   invoices, items, nextId, call, nOps, lastNext, maxAssigned,
                   resolved, everResolved>>

\* The answer of a waiting operation arrives while another operation is at
\* its await: the waiting one goes on and the other one waits
Switch(w) ==
    /\ storeCall.pc = "await"
    /\ Idle
    /\ parked[w] # Null
    /\ storeCall' = parked[w][1].storeCall
    /\ ret' = parked[w][1].ret
    /\ parked' = [parked EXCEPT
                    ![w] = Some([storeCall |-> storeCall, ret |-> ret])]
    /\ UNCHANGED <<store, local, profiles, session, freelancers, clients,
                   invoices, items, nextId, call, nOps, lastNext, maxAssigned,
                   resolved, everResolved>>

\* The store operations that have been issued and have not completed
PendingOperations ==
    {storeCall.op : x \in {storeCall.pc} \cap {"await"}}
        \cup {parked[w][1].storeCall.op : w \in {v \in Waiting : parked[v] # Null}}

\* No answer of the backend is lost
NoFault == {x \in Faults : x.kind = "ok"}

NextConcurrent ==
    \/ AppContentEffect
    \/ \E fault \in NoFault : InitializeAppUser(fault)
    \/ \E fault \in NoFault : InitializeAppFreelancers(fault)
    \/ \E clientsFault \in NoFault, invoicesFault \in NoFault :
           InitializeAppLoaded(clientsFault, invoicesFault)
    \/ LayoutEffect
    \/ \E fault \in NoFault : LoadClientsService(fault)
    \/ LoadClientsDone
    \/ \E fault \in NoFault : LoadInvoicesService(fault)
    \/ LoadInvoicesDone
    \/ AddClient([companyName |-> <<"A", "c", "m", "e">>, email |-> UpperEmail])
    \/ \E fault \in NoFault : AddClientService(fault)
    \/ AddClientDone
    \/ \E id \in ShownIds(store.clients),
               updateData \in {[email |-> UpperEmail],
                               [companyName |-> <<" ", "A", "c", "m", "e", " ">>]} :
                StoreUpdateClient(id, updateData)
    \/ \E fault \in AppFaults : StoreUpdateClientService(fault)
    \/ StoreUpdateClientDone
    \/ \E id \in ShownIds(store.clients) : StoreDeleteClient(id)
    \/ \E fault \in NoFault : StoreDeleteClientService(fault)
    \/ StoreDeleteClientDone
    \/ \E invoiceData \in AppInvoiceInputs :
           /\ invoiceData.client \in ShownIds(store.clients)
           /\ AddInvoice(invoiceData)
    \/ AddInvoiceService
    \/ \E fault \in NoFault :
           \/ CountStep("a", fault)
           \/ RelFreelancerStep("a", fault)
           \/ RelClientStep("a", fault)
           \/ InsertInvoiceStep("a", fault)
           \/ InsertItemsStep("a", fault)
    \/ AddInvoiceDone
    \/ StoreSettle
    \/ \E id \in ShownIds(store.invoices) \cup {InvoiceUuid(0)} :
                StoreUpdateInvoice(id, [status |-> "paid"])
    \/ \E fault \in NoFault : StoreUpdateInvoiceService(fault)
    \/ StoreUpdateInvoiceDone
    \/ \E id \in ShownIds(store.invoices) \cup {InvoiceUuid(0)} :
                StoreDeleteInvoice(id)
    \/ \E fault \in AppFaults : StoreDeleteInvoiceService(fault)
    \/ StoreDeleteInvoiceDone
    \/ StoreTake
    \/ Park
    \/ \E w \in Waiting : Resume(w)

SpecConcurrent == Init /\ [][NextConcurrent]_vars

\* The store operation that takes this step: the one that starts, or the one
\* whose continuation runs
Stepping(group) == store' # store /\ Group(storeCall'.op) = group

\* C21: a step of a client operation leaves invoiceError, isLoadingInvoices,
\* error and isLoading as they are, and a step of an invoice operation leaves
\* clientError, isLoadingClients, error and isLoading as they are, whatever
\* operations of other groups are pending or have failed.
C21_GroupsIndependent ==
    [][ /\ Stepping("clients") =>
               UNCHANGED <<store.invoiceError, store.isLoadingInvoices,
                           store.error, store.isLoading>>
        /\ Stepping("invoices") =>
               UNCHANGED <<store.clientError, store.isLoadingClients,
                           store.error, store.isLoading>> ]_vars

\* An invoice operation was issued and has completed without error while a
\* client operation is pending
C21_Witness ==
    /\ storeCall.pc = "done" /\ Group(storeCall.op) = "invoices"
    /\ ret.op \in {"updateInvoice", "deleteInvoice"} /\ ret.error = Null
    /\ "updateClient" \in PendingOperations
    /\ store.isLoadingClients
    /\ ~store.isLoadingInvoices /\ store.invoiceError = Null

----------------------------------------------------------------------------
(* The offline variant: services/storage.ts over window.localStorage and   *)
(* the store built on it. A stored item is the JSON value of its text.     *)

\* JSON.stringify of a Date: toISOString(), and null for Invalid Date
DateToJSON(date) == IF date.valid THEN Some(toISODate(date)) ELSE Null

\* new Date(value) of a parsed field: new Date(null) is the epoch
DateFromJSON(j) ==
    IF j # Null /\ j[1] \in DOMAIN DateFields THEN NewDate(j[1])
    ELSE DateOf(1970, 1, 1)

ClientToJSON(client) ==
    [id |-> client.id, createdAt |-> DateToJSON(client.createdAt)]

ClientFromJSON(j) == [id |-> j.id, createdAt |-> DateFromJSON(j.createdAt)]

InvoiceToJSON(invoice) ==
    [id |-> invoice.id, invoiceNumber |-> invoice.invoiceNumber,
     dateIssued |-> DateToJSON(invoice.dateIssued)]

InvoiceFromJSON(j) ==
    [id |-> j.id, invoiceNumber |-> j.invoiceNumber,
     dateIssued |-> DateFromJSON(j.dateIssued)]

MapSeq(seq, Map(_)) == [i \in DOMAIN seq |-> Map(seq[i])]

\* parseInt(data, 10) of a counter written by counter.toString()
parseInt(text) == CHOOSE n \in 0..(MaxOffline + 2) : NatToString(n) = text

\* storage.ts lines 12-20
getFreelancer(ls) == ls["freelancer"]

\* storage.ts lines 31-45
getClients(ls) ==
    IF ls["clients"] = Null THEN <<>>
    ELSE MapSeq(ls["clients"][1], ClientFromJSON)

\* storage.ts lines 56-73
getInvoices(ls) ==
    IF ls["invoices"] = Null THEN <<>>
    ELSE MapSeq(ls["invoices"][1], InvoiceFromJSON)

\* storage.ts lines 84-92
getInvoiceCounter(ls) ==
    IF ls["counter"] = Null THEN 1 ELSE parseInt(ls["counter"][1])

\* localStorage.setItem(key, text) inside try/catch: a throw is swallowed
SetItem(ls, key, text, failing) ==
    IF key \in failing THEN ls ELSE [ls EXCEPT ![key] = Some(text)]

saveFreelancer(ls, freelancer, failing) ==
    SetItem(ls, "freelancer", freelancer, failing)

saveClients(ls, cls, failing) ==
    SetItem(ls, "clients", MapSeq(cls, ClientToJSON), failing)

saveInvoices(ls, invs, failing) ==
    SetItem(ls, "invoices", MapSeq(invs, InvoiceToJSON), failing)

saveInvoiceCounter(ls, counter, failing) ==
    SetItem(ls, "counter", NatToString(counter), failing)

\* The four stores as the getters read them
StoredState(ls) ==
    [freelancer |-> getFreelancer(ls), clients |-> getClients(ls),
     invoices |-> getInvoices(ls), invoiceCounter |-> getInvoiceCounter(ls)]

\* exportData, storage.ts lines 109-117: the document, key by key; null is
\* the JSON null
exportData(ls) ==
    [wellFormed |-> TRUE,
     keys |-> [k \in STORAGE_KEYS |->
                 CASE k = "freelancer" -> getFreelancer(ls)
                   [] k = "clients" -> Some(MapSeq(getClients(ls), ClientToJSON))
                   [] k = "invoices" ->
                          Some(MapSeq(getInvoices(ls), InvoiceToJSON))
                   [] k = "counter" -> Some(getInvoiceCounter(ls))]]

\* if (data.key): null, undefined and 0 are falsy, objects and arrays are not
TruthyKey(document, k) ==
    /\ k \in DOMAIN document.keys
    /\ document.keys[k] # Null
    /\ k = "counter" => document.keys[k][1] # 0

\* The text each save writes for the document's value
SavedText(document, k) ==
    IF k = "counter" THEN NatToString(document.keys[k][1])
    ELSE document.keys[k][1]

\* importData, storage.ts lines 119-133
importData(ls, document, failing) ==
    IF ~document.wellFormed THEN [ok |-> FALSE, storage |-> ls]
    ELSE [ok |-> TRUE,
          storage |-> [k \in STORAGE_KEYS |->
                         IF TruthyKey(document, k) /\ k \notin failing
                         THEN Some(SavedText(document, k))
                         ELSE ls[k]]]

----------------------------------------------------------------------------
(* The offline store (store/useStore over storageService) and the invoice  *)
(* form that submits to it                                                 *)

\* `INV-${counter.toString().padStart(4, '0')}`
generateInvoiceNumber(counter) ==
    "INV-" \o padStart(NatToString(counter), 4, "0")

OfflineFrame ==
    UNCHANGED <<store, storeCall, parked, profiles, session, freelancers,
                clients, invoices, items, nextId, call, ret, nOps, lastNext,
                maxAssigned, resolved, everResolved>>

OfflineReady == transfer.steps < MaxOffline

\* History: one more operation, and the last import is no longer the last
\* thing done
Stepped(t) == [t EXCEPT !.steps = @ + 1, !.imported = Null]

OfflineFreelancers == {[name |-> "Jane Dev"], [name |-> "Jane"]}

\* setFreelancer, lines 8-11
OfflineSetFreelancer(freelancer) ==
    /\ OfflineReady
    /\ localStorage' = saveFreelancer(localStorage, freelancer, {})
    /\ offlineStore' = [offlineStore EXCEPT !.freelancer = Some(freelancer)]
    /\ transfer' = Stepped(transfer)
    /\ OfflineFrame

\* addClient, lines 15-24
OfflineAddClient ==
    /\ OfflineReady
    /\ LET client == [id |-> "client_" \o NatToString(transfer.made),
                      createdAt |-> DateOf(2024, 1, 15)]
           cls == Append(offlineStore.clients, client)
       IN  /\ localStorage' = saveClients(localStorage, cls, {})
           /\ offlineStore' = [offlineStore EXCEPT !.clients = cls]
    /\ transfer' = [Stepped(transfer) EXCEPT !.made = @ + 1]
    /\ OfflineFrame

\* deleteClient, lines 32-36
OfflineDeleteClient(id) ==
    /\ OfflineReady
    /\ LET cls == SelectMapped(offlineStore.clients,
                               LAMBDA x : Different(id, x), Same)
       IN  /\ localStorage' = saveClients(localStorage, cls, {})
           /\ offlineStore' = [offlineStore EXCEPT !.clients = cls]
    /\ transfer' = Stepped(transfer)
    /\ OfflineFrame

\* addInvoice, lines 41-51: the invoice is the data handed over, with an id
OfflineAdded(s, invoiceData, made) ==
    Append(s.invoices,
           [id |-> "invoice_" \o NatToString(made),
            invoiceNumber |-> invoiceData.invoiceNumber,
            dateIssued |-> invoiceData.dateIssued])

\* InvoiceForm.handleSubmit over the offline store: addInvoice, then
\* incrementInvoiceCounter (lines 68-72)
OfflineHandleSubmit(dateIssued) ==
    /\ OfflineReady
    /\ offlineStore.freelancer # Null
    /\ LET invoiceData ==
               [invoiceNumber |->
                    generateInvoiceNumber(offlineStore.invoiceCounter),
                dateIssued |-> dateIssued]
           invs == OfflineAdded(offlineStore, invoiceData, transfer.made)
           counter == offlineStore.invoiceCounter + 1
       IN  /\ localStorage' =
                  saveInvoiceCounter(saveInvoices(localStorage, invs, {}),
                                     counter, {})
           /\ offlineStore' = [offlineStore EXCEPT !.invoices = invs,
                                                   !.invoiceCounter = counter]
    /\ transfer' = [Stepped(transfer) EXCEPT !.made = @ + 1]
    /\ OfflineFrame

\* The page is loaded again: the store is created from localStorage
OfflineReload ==
    /\ OfflineReady
    /\ offlineStore' = StoredState(localStorage)
    /\ transfer' = Stepped(transfer)
    /\ UNCHANGED localStorage
    /\ OfflineFrame

\* Layout.handleExport
ExportData ==
    /\ OfflineReady
    /\ transfer' = [Stepped(transfer) EXCEPT
                      !.exported = Some([document |-> exportData(localStorage),
                                         state |-> StoredState(localStorage)])]
    /\ UNCHANGED <<localStorage, offlineStore>>
    /\ OfflineFrame

\* A text that does not parse
Malformed == [wellFormed |-> FALSE, keys |-> <<>>]

\* Documents written by hand: some keys only, and a counter of 0
WrittenDocuments ==
    {Malformed,
     [wellFormed |-> TRUE,
      keys |-> [k \in {"freelancer"} |-> Some([name |-> "Joe"])]],
     [wellFormed |-> TRUE,
      keys |-> [k \in {"clients", "counter"} |->
                   IF k = "clients" THEN Some(<<>>) ELSE Some(0)]]}

\* The documents a user may pick: the last export or a written one
Documents ==
    WrittenDocuments \cup
        (IF transfer.exported = Null THEN {}
         ELSE {transfer.exported[1].document})

\* Layout.handleImport: importData of the text of the chosen file; setItem
\* throws for the keys in failing (the quota is exceeded)
ImportData(document, failing) ==
    /\ OfflineReady
    /\ LET result == importData(localStorage, document, failing)
       IN  /\ localStorage' = result.storage
           /\ transfer' = [transfer EXCEPT
                             !.steps = @ + 1,
                             !.imported = Some([document |-> document,
                                                ok |-> result.ok,
                                                before |-> localStorage,
                                                failing |-> failing])]
    /\ UNCHANGED offlineStore
    /\ OfflineFrame

NextOffline ==
    \/ \E freelancer \in OfflineFreelancers : OfflineSetFreelancer(freelancer)
    \/ OfflineAddClient
    \/ \E id \in ShownIds(offlineStore.clients) : OfflineDeleteClient(id)
    \/ \E dateIssued \in {DateOf(2024, 1, 15), InvalidDate} :
           OfflineHandleSubmit(dateIssued)
    \/ OfflineReload
    \/ ExportData
    \/ \E document \in Documents, failing \in {{}, {"freelancer"}} :
           ImportData(document, failing)

SpecOffline == Init /\ [][NextOffline]_vars

\* The document of the last import is the one exported last, and no write
\* of the import was refused
ImportedExport ==
    /\ transfer.imported # Null
    /\ transfer.exported # Null
    /\ transfer.imported[1].document = transfer.exported[1].document
    /\ transfer.imported[1].failing = {}

\* C24: importing the document that exportData produced reproduces the
\* freelancer, clients, invoices and counter that were exported, whatever the
\* store held when it was exported and whatever it holds when it is imported.
C24_ExportImportRoundTrip ==
    ImportedExport => StoredState(localStorage) = transfer.exported[1].state

\* What importData has just done, key by key
Applied(k) ==
    localStorage[k] =
        Some(SavedText(transfer.imported[1].document, k))

Untouched(k) == localStorage[k] = transfer.imported[1].before[k]

\* C25: after importData, the store of each key present in the document holds
\* the document's value and the store of each absent key is untouched; a
\* malformed text gives false and leaves the four stores unchanged; true is
\* returned only when every present key was applied.
C25_ImportPerKey ==
    transfer.imported # Null =>
        LET document == transfer.imported[1].document
            present == IF document.wellFormed THEN DOMAIN document.keys ELSE {}
        IN  /\ ~document.wellFormed =>
                   /\ ~transfer.imported[1].ok
                   /\ \A k \in STORAGE_KEYS : Untouched(k)
            /\ document.wellFormed /\ transfer.imported[1].ok =>
                   /\ \A k \in present :
                          IF document.keys[k] = Null
                          THEN localStorage[k] = Null
                          ELSE Applied(k)
                   /\ \A k \in STORAGE_KEYS \ present : Untouched(k)

----------------------------------------------------------------------------
(* The profile of the signed-in user: the application is initialized and   *)
(* the Settings form saves the profile with setFreelancer                  *)

\* Settings: the form is shown once the application is initialized
SettingsSave(freelancerData) ==
    /\ session # Null
    /\ store.isInitialized
    /\ SetFreelancer(freelancerData)

NextProfile ==
    \/ AppContentEffect
    \/ \E fault \in AppFaults : InitializeAppUser(fault)
    \/ \E fault \in AppFaults : InitializeAppFreelancers(fault)
    \/ \E clientsFault \in NoFault, invoicesFault \in NoFault :
           InitializeAppLoaded(clientsFault, invoicesFault)
    \/ \E freelancerData \in FreelancerInputs : SettingsSave(freelancerData)
    \/ \E fault \in AppFaults : SetFreelancerService(fault)
    \/ SetFreelancerDone
    \/ StoreTake
    \/ Park
    \/ \E w \in Waiting : Resume(w)

SpecProfile == Init /\ [][NextProfile]_vars

\* The rows of the freelancers table that belong to a user
FreelancersOf(u) == {f \in DOMAIN profiles : profiles[f].user_id = u}

\* C26: after any sequence or interleaving of setFreelancer calls of one
\* authenticated user, at most one freelancer row exists for that user
C26_OneFreelancerPerUser ==
    \A u \in UserIds : Cardinality(FreelancersOf(u)) <= 1

----------------------------------------------------------------------------
(* Client operations issued back-to-back: their answers arrive in any     *)
(* order                                                                   *)

\* Two changes of a client that leave different rows
ConcurrentClientUpdates ==
    {[email |-> UpperEmail], [companyName |-> <<" ", "A", "B", " ">>]}

NextClients ==
    \/ AppContentEffect
    \/ \E fault \in NoFault : InitializeAppUser(fault)
    \/ \E fault \in NoFault : InitializeAppFreelancers(fault)
    \/ \E clientsFault \in NoFault, invoicesFault \in NoFault :
           InitializeAppLoaded(clientsFault, invoicesFault)
    \/ /\ store.isInitialized
       /\ store.freelancer # Null
       /\ LoadClients(store.freelancer[1].id)
    \/ \E fault \in NoFault : LoadClientsService(fault)
    \/ LoadClientsDone
    \/ AddClient([companyName |-> <<"A", "c", "m", "e">>, email |-> UpperEmail])
    \/ \E fault \in NoFault : AddClientService(fault)
    \/ AddClientDone
    \/ \E id \in ShownIds(store.clients),
               updateData \in ConcurrentClientUpdates :
                StoreUpdateClient(id, updateData)
    \/ \E fault \in AppFaults : StoreUpdateClientService(fault)
    \/ StoreUpdateClientDone
    \/ \E id \in ShownIds(store.clients) : StoreDeleteClient(id)
    \/ \E fault \in NoFault : StoreDeleteClientService(fault)
    \/ StoreDeleteClientDone
    \/ StoreTake
    \/ Park
    \/ \E w \in Waiting : Resume(w)
    \/ \E w \in Waiting : Switch(w)

SpecClients == Init /\ [][NextClients]_vars

\* The continuation of the operation op runs after an answer without error
Completing(op) ==
    /\ storeCall.pc = "await" /\ storeCall.op = op
    /\ storeCall'.pc = "done"
    /\ ~Truthy(ret.error)

\* C27: client operations issued back-to-back complete in either order, and
\* each completion applies its change to the list of the snapshot as it is
\* when the completion runs: updateClient sets the entry of its client to the
\* row its own call returned (so the completion that runs last decides the
\* entry), addClient appends its client, deleteClient removes its client, and
\* the other entries stay as they are
C27_LastCompletionWins ==
    [][ /\ Completing("updateClient") /\ ret.data # Null =>
               /\ Len(store'.clients) = Len(store.clients)
               /\ \A i \in DOMAIN store.clients :
                      IF store.clients[i].id = storeCall.arg
                      THEN /\ store'.clients[i].id = storeCall.arg
                           /\ store'.clients[i].companyName =
                                  ret.data[1].company_name
                           /\ store'.clients[i].email = ret.data[1].email
                      ELSE store'.clients[i] = store.clients[i]
        /\ Completing("addClient") /\ ret.data # Null =>
               /\ Len(store'.clients) = Len(store.clients) + 1
               /\ SubSeq(store'.clients, 1, Len(store.clients)) = store.clients
               /\ store'.clients[Len(store'.clients)].id = ret.data[1].id
        /\ Completing("deleteClient") =>
               store'.clients =
                   SelectSeq(store.clients, LAMBDA x : x.id # storeCall.arg)
      ]_vars

\* Two updateClient calls on one client were waiting together; the call whose
\* service answered first has completed last, and the entry of the snapshot
\* is the row that call returned, not the row the table holds
C27_Witness ==
    /\ storeCall.op = "updateClient" /\ storeCall.pc = "done"
    /\ ret.op = "updateClient" /\ ret.error = Null /\ ret.data # Null
    /\ PendingOperations = {}
    /\ \E r \in clients : r.id = storeCall.arg /\ r # ret.data[1]
    /\ \E i \in DOMAIN store.clients :
           /\ store.clients[i].id = storeCall.arg
           /\ store.clients[i].email = ret.data[1].email
           /\ store.clients[i].companyName = ret.data[1].company_name

----------------------------------------------------------------------------
(* Numbers computed from the invoice count against the unique index *)

\* C28: under sequential use by any number of freelancers, a createInvoice
\* call that supplies no invoice number never fails with 'Invoice number
\* already exists'
C28_GeneratedNumberIsFree ==
    \A c \in Slots :
        Returned_(c) /\ call[c].auto =>
            call[c].result.error # Some("Invoice number already exists")

----------------------------------------------------------------------------
(* The loading flags against the operations in progress *)

\* The operations that have been issued and have not completed
PendingCalls ==
    {r \in {storeCall} \cup
           {parked[w][1].storeCall : w \in {v \in Waiting : parked[v] # Null}} :
        r.pc = "await"}

\* An operation of the group is in progress: one of its own, or the load that
\* initializeApp has called
PendingIn(group) ==
    \E r \in PendingCalls :
        \/ Group(r.op) = group
        \/ r.op = "initializeApp" /\ r.arg = "load"

\* C29: isLoadingClients is true exactly when a client operation has been
\* issued and has not completed, and isLoadingInvoices likewise for invoice
\* operations, under any interleaving of issued operations and completions
C29_LoadingIffPending ==
    /\ store.isLoadingClients <=> PendingIn("clients")
    /\ store.isLoadingInvoices <=> PendingIn("invoices")

----------------------------------------------------------------------------
(* InvoiceForm over the hosted store: the number shown in the form is      *)
(* handed to addInvoice                                                    *)

\* useStore.ts line 563: the counter of the hosted store;
\* incrementInvoiceCounter (lines 564-567) leaves it as it is
invoiceCounter == 1

\* formData.invoiceNumber: generateInvoiceNumber(invoiceCounter) when the
\* form is mounted, generateInvoiceNumber(invoiceCounter + 1) after a submit
FormNumbers ==
    {generateInvoiceNumber(invoiceCounter),
     generateInvoiceNumber(invoiceCounter + 1)}

\* InvoiceForm.handleSubmit, lines 76-118
HandleSubmit(invoiceNumber, invoiceData) ==
    /\ session # Null
    /\ store.isInitialized
    /\ store.freelancer # Null
    /\ invoiceData.client \in ShownIds(store.clients)
    /\ AddInvoice([k \in DOMAIN invoiceData \cup {"invoiceNumber"} |->
                      IF k = "invoiceNumber" THEN invoiceNumber
                      ELSE invoiceData[k]])

NextForm ==
    \/ AppContentEffect
    \/ \E fault \in NoFault : InitializeAppUser(fault)
    \/ \E fault \in NoFault : InitializeAppFreelancers(fault)
    \/ \E clientsFault \in NoFault, invoicesFault \in NoFault :
           InitializeAppLoaded(clientsFault, invoicesFault)
    \/ \E invoiceNumber \in FormNumbers, invoiceData \in InvoiceDataInputs :
           HandleSubmit(invoiceNumber, invoiceData)
    \/ AddInvoiceService
    \/ Step("a", AppFaults)
    \/ AddInvoiceDone
    \/ StoreSettle
    \/ \E freelancer \in OfflineFreelancers : OfflineSetFreelancer(freelancer)
    \/ \E dateIssued \in {DateOf(2024, 1, 15)} : OfflineHandleSubmit(dateIssued)

SpecForm == Init /\ [][NextForm]_vars

\* C30: the invoice addInvoice adds to the store carries the invoiceNumber
\* the form handed over, in the hosted store and in the offline store
C30_AddedInvoiceCarriesFormNumber ==
    /\ /\ storeCall.op = "addInvoice" /\ storeCall.pc = "done"
       /\ call["a"].pc = "returned"
       /\ call["a"].result.error = Null /\ call["a"].result.data # Null
       => store.invoices[Len(store.invoices)].invoiceNumber =
              storeCall.input[1].invoiceNumber
    /\ offlineStore.invoices # <<>> =>
           offlineStore.invoices[Len(offlineStore.invoices)].invoiceNumber =
               generateInvoiceNumber(offlineStore.invoiceCounter - 1)

====
